---- MODULE Spec2Model ----
(***************************************************************************)
(* viz3 layout engine: the event server (event.hpp / event.cpp), its       *)
(* listeners, the transaction (transaction.hpp) and the LayoutEngine       *)
(* facade (viz3.hpp / viz3.cpp), as a state machine of producer threads    *)
(* that open transactions and render, and consumer threads that own        *)
(* EventListener objects.                                                  *)
(***************************************************************************)
EXTENDS Integers, Sequences, FiniteSets, TLC

(* ------------------------------ bounds --------------------------------- *)
\* longest event log explored (m_events.size())
MaxEvents == 3
\* number of listener tokens the server hands out (m_token_counter)
MaxTokens == 2
\* transactions one producer thread may hold open at once (re-entrant lock)
MaxOpen == 1
\* longest event log explored by the render specification
MaxRenderEvents == 13
\* listener tokens handed out in the runs checked under fairness
MaxFairTokens == 1
MaxCalls == 4
\* transactions one thread nests where the re-entrant lock is examined
MaxNested == 2

(* ------------------------------ threads -------------------------------- *)
Producers == {"p1", "p2"}
Consumers == {"c1"}
Threads == Producers \cup Consumers
NoThread == "nobody"
\* no listener: a token the server never hands out
NoToken == MaxTokens

(* ------------------------- paths and geometry -------------------------- *)
\* Path::comparison: shorter paths first, then part by part
RECURSIVE PartsCompare(_, _)
PartsCompare(a, b) ==
    IF a = <<>> THEN 0
    ELSE IF Head(a) > Head(b) THEN 1
    ELSE IF Head(a) < Head(b) THEN -1
    ELSE PartsCompare(Tail(a), Tail(b))

comparison(a, b) ==
    IF Len(a) > Len(b) THEN 1
    ELSE IF Len(a) < Len(b) THEN -1
    ELSE PartsCompare(a, b)

PathLess(a, b) == comparison(a, b) < 0

\* Point(): the origin
Origin == <<0, 0, 0>>

\* Point::operator+
PointAdd(a, b) == <<a[1] + b[1], a[2] + b[2], a[3] + b[3]>>

Abs(n) == IF n < 0 THEN -n ELSE n
Min(a, b) == IF a > b THEN b ELSE a
Max(a, b) == IF a > b THEN a ELSE b

\* Bounds(base, end), and Bounds(): no bounds
Bounds(base, end) == [base |-> base, end |-> end]
NoBounds == Bounds(Origin, Origin)

\* Bounds::lengths, Bounds::width and Bounds::strip_pos
lengths(b) ==
    <<Abs(b.end[1] - b.base[1]), Abs(b.end[2] - b.base[2]), Abs(b.end[3] - b.base[3])>>
width(b) == Abs(b.end[1] - b.base[1])
strip_pos(b) == Bounds(Origin, lengths(b))

\* Bounds::operator+=(const Bounds&): bounds that are (0,0,0)-(0,0,0) adopt
\* the other bounds, otherwise the smaller base and the larger end
BoundsAdd(a, b) ==
    IF a.base = Origin /\ a.end = Origin THEN b
    ELSE Bounds(<<Min(a.base[1], b.base[1]), Min(a.base[2], b.base[2]),
                  Min(a.base[3], b.base[3])>>,
                <<Max(a.end[1], b.end[1]), Max(a.end[2], b.end[2]),
                  Max(a.end[3], b.end[3])>>)

\* the least and the largest coordinate k of a non-empty list of points
RECURSIVE LeastCoord(_, _)
LeastCoord(pts, k) ==
    IF Len(pts) = 1 THEN pts[1][k] ELSE Min(pts[1][k], LeastCoord(Tail(pts), k))
RECURSIVE LargestCoord(_, _)
LargestCoord(pts, k) ==
    IF Len(pts) = 1 THEN pts[1][k] ELSE Max(pts[1][k], LargestCoord(Tail(pts), k))

\* Geometry::compute_bounds
compute_bounds(vertexes) ==
    IF vertexes = <<>> THEN NoBounds
    ELSE Bounds(<<LeastCoord(vertexes, 1), LeastCoord(vertexes, 2), LeastCoord(vertexes, 3)>>,
                <<LargestCoord(vertexes, 1), LargestCoord(vertexes, 2),
                  LargestCoord(vertexes, 3)>>)

\* color::default_color (black, opaque) and the colour of the spec's example
default_color == <<0, 0, 0, 255>>
Coral == <<255, 107, 107, 255>>

\* Geometry::Geometry: the bounds are computed from the vertexes
Geometry(vertexes, triangles, pos, color, text) ==
    [vertexes |-> vertexes, triangles |-> triangles,
     bounds |-> compute_bounds(vertexes), pos |-> pos, color |-> color, text |-> text]

\* Geometry::should_draw: the vertex list is not empty
should_draw(g) == g.vertexes # <<>>

\* Geometry::empty(pos, bounds): no vertexes, default colour, no text
EmptyGeometry(pos, bounds) ==
    [vertexes |-> <<>>, triangles |-> <<>>, bounds |-> bounds, pos |-> pos,
     color |-> default_color, text |-> ""]

\* Geometry::positioned_bounds and Geometry::offset_pos
positioned_bounds(g) == Bounds(PointAdd(g.bounds.base, g.pos), PointAdd(g.bounds.end, g.pos))
offset_pos(g, by) == [g EXCEPT !.pos = PointAdd(@, by)]

\* a box reduced to its bounds: no vertexes, no triangles
box_geometry_BoundsOnly(w, h, d, color, text) ==
    [EmptyGeometry(Origin, Bounds(Origin, <<w, h, d>>))
        EXCEPT !.color = color, !.text = text]

\* BaseBoxElement::box_geometry: the 8 corners and the 12 triangles of a
\* box, at the origin; construct_geometry adds the element's colour
\* (opacity 1, darkness 0) and text
box_geometry(w, h, d, color, text) ==
    Geometry(<< <<0, 0, 0>>, <<0, h, 0>>, <<w, 0, 0>>, <<w, h, 0>>,
                <<0, 0, d>>, <<0, h, d>>, <<w, 0, d>>, <<w, h, d>> >>,
             << <<1, 2, 0>>, <<1, 3, 2>>, <<0, 4, 1>>, <<4, 5, 1>>,
                <<4, 6, 5>>, <<6, 7, 5>>, <<3, 6, 2>>, <<3, 7, 6>>,
                <<2, 4, 0>>, <<2, 6, 4>>, <<1, 5, 3>>, <<5, 7, 3>> >>,
             Origin, color, text)

\* Node::path of the root node: Path {}
RootPath == <<>>

\* std::nullopt
nullopt == "nullopt"

\* A node tree is the root (a NopElement), under it either the boxes
\* themselves or one juxtapose element that holds them, and the boxes in
\* child order.  Names are numbers, ordered as the strings are.
JName == 1
BoxElement(name, w, h, d, color, text) ==
    [name |-> name, w |-> w, h |-> h, d |-> d, color |-> color, text |-> text,
     relative |-> nullopt]
\* a box whose width attribute is the name of another value
RelativeBoxElement(name, relative_name, h, d, color, text) ==
    [BoxElement(name, 1, h, d, color, text) EXCEPT !.relative = relative_name]
Scene(juxtaposed, spacing, boxes) ==
    [juxtaposed |-> juxtaposed, spacing |-> spacing, boxes |-> boxes]

\* the bare root, and the root with one unit box as its child
RootScene == Scene(FALSE, 0, <<>>)
BoxScene == Scene(FALSE, 0, <<BoxElement(1, 1, 1, 1, default_color, "")>>)

\* RenderTree(): nothing rendered
EmptyTree == [p \in {} |-> EmptyGeometry(Origin, NoBounds)]

(* --------------------------- attribute values -------------------------- *)
\* floats, counted in hundredths
Float(n) == n * 100
FloatMul(a, b) == (a * b) \div 100
FloatDiv(a, b) == (a * 100) \div b

\* RelativeFloatValue m_width = {"width", "w", default_width, true}
default_width == Float(1)
RelativeFloatValue(name, abbreviation, value, is_default) ==
    [name |-> name, abbreviation |-> abbreviation, m_value |-> value,
     m_defaulted |-> is_default, m_multiplier |-> Float(1),
     m_is_percentage |-> FALSE, m_relative_name |-> nullopt]

\* AncestorValues(): no values
NoValues == [n \in {} |-> 0]


\* the names of the size attributes in the key order of the std::map, and
\* the aliases SizeFeature passes: abbreviation -> name
SizeNames == <<"depth", "height", "width">>
SizeAliases == [a \in {"d", "h", "w"} |->
                   IF a = "d" THEN "depth" ELSE IF a = "h" THEN "height" ELSE "width"]

\* what a relative attribute may name: a size attribute, an abbreviation,
\* or a value of some ancestor
RelativeNames == {"depth", "height", "width", "d", "h", "w", "radius"}

\* an alias lookup that resolves nothing
resolve_alias_Unresolved(name, aliases) == name

\* resolve_alias
resolve_alias(name, aliases) ==
    IF name \in DOMAIN aliases THEN aliases[name] ELSE name

\* indexes.right.find: the vertex of a name, 0 when it has none
VertexOf(indexes, name) ==
    IF \E i \in 1 .. Len(indexes) : indexes[i] = name
    THEN CHOOSE i \in 1 .. Len(indexes) : indexes[i] = name
    ELSE 0

\* indexes.insert / add_vertex when the name has no vertex yet
WithVertex(indexes, name) ==
    IF VertexOf(indexes, name) = 0 THEN Append(indexes, name) ELSE indexes

\* the first loop of topological_sort_with_aliases: the vertices in the
\* order they are numbered, and the edges dep -> name in the order added
RECURSIVE build_graph(_, _, _, _)
build_graph(names, deps, aliases, graph) ==
    IF names = <<>> THEN graph
    ELSE LET name == Head(names)
         IN  IF name \notin DOMAIN deps
             THEN build_graph(Tail(names), deps, aliases, graph)
             ELSE LET named == WithVertex(graph.indexes, name)
                  IN  IF deps[name] = nullopt
                      THEN build_graph(Tail(names), deps, aliases,
                                       [graph EXCEPT !.indexes = named])
                      ELSE LET dep == resolve_alias(deps[name], aliases)
                               both == WithVertex(named, dep)
                           IN  build_graph(Tail(names), deps, aliases,
                                   [indexes |-> both,
                                    edges |-> Append(graph.edges,
                                       <<VertexOf(both, dep), VertexOf(both, name)>>)])

\* boost::topological_sort: a depth-first search from each white vertex in
\* index order; a back edge throws not_a_dag, a finished vertex goes to the
\* front of order
out_edges(graph, v) == SelectSeq(graph.edges, LAMBDA e : e[1] = v)

RECURSIVE dfs_visit(_, _, _)
RECURSIVE dfs_edges(_, _, _)
dfs_visit(graph, v, search) ==
    LET discovered == [search EXCEPT !.color[v] = "gray"]
        finished == dfs_edges(graph, out_edges(graph, v), discovered)
    IN  IF finished.not_a_dag THEN finished
        ELSE [finished EXCEPT !.color[v] = "black", !.order = <<v>> \o @]
dfs_edges(graph, edges, search) ==
    IF edges = <<>> \/ search.not_a_dag THEN search
    ELSE LET target == Head(edges)[2]
         IN  IF search.color[target] = "gray"
             THEN [search EXCEPT !.not_a_dag = TRUE]
             ELSE IF search.color[target] = "white"
             THEN dfs_edges(graph, Tail(edges), dfs_visit(graph, target, search))
             ELSE dfs_edges(graph, Tail(edges), search)

RECURSIVE dfs_from(_, _, _)
dfs_from(graph, v, search) ==
    IF v > Len(graph.indexes) \/ search.not_a_dag THEN search
    ELSE IF search.color[v] = "white"
    THEN dfs_from(graph, v + 1, dfs_visit(graph, v, search))
    ELSE dfs_from(graph, v + 1, search)

topological_sort(graph) ==
    dfs_from(graph, 1, [color |-> [v \in 1 .. Len(graph.indexes) |-> "white"],
                        order |-> <<>>, not_a_dag |-> FALSE])

\* the last loop: the names of order that are keys of dependencies
RECURSIVE new_ordered_names(_, _, _)
new_ordered_names(order, indexes, deps) ==
    IF order = <<>> THEN <<>>
    ELSE IF indexes[Head(order)] \in DOMAIN deps
    THEN <<indexes[Head(order)]>> \o new_ordered_names(Tail(order), indexes, deps)
    ELSE new_ordered_names(Tail(order), indexes, deps)

\* topological_sort_with_aliases
topological_sort_with_aliases(deps, aliases) ==
    LET graph == build_graph(SizeNames, deps, aliases, [indexes |-> <<>>, edges |-> <<>>])
        sorted == topological_sort(graph)
    IN  IF sorted.not_a_dag
        THEN [threw |-> "runtime_error: Attributes given form a cycle",
              names |-> <<>>, called |-> TRUE]
        ELSE [threw |-> "", called |-> TRUE,
              names |-> new_ordered_names(sorted.order, graph.indexes, deps)]

\* the characters of an attribute value: a leading number, a name, a final %
Number(n) == [kind |-> "number", n |-> n, text |-> ""]
Name(text) == [kind |-> "name", n |-> 0, text |-> text]
Percent == [kind |-> "percent", n |-> 0, text |-> "%"]
\* what a call returns or throws
Returned(val) == [threw |-> FALSE, val |-> val]
Thrown == [threw |-> TRUE, val |-> 0]

\* TypedValue::set_value that leaves the multiplier and the percentage alone
set_value_KeepMultiplier(value, new_value) ==
    [value EXCEPT !.m_value = new_value, !.m_defaulted = FALSE]

\* RelativeFloatTypeValue::set_value
set_value(value, new_value) ==
    [value EXCEPT !.m_value = new_value, !.m_defaulted = FALSE,
                  !.m_is_percentage = FALSE, !.m_multiplier = Float(1)]

\* RelativeFloatTypeValue::update_from_attribute_value; a lone % throws
\* before anything is written
update_from_attribute_value(value, attribute_value) ==
    IF attribute_value = <<>> \/ attribute_value = <<Percent>> THEN value
    ELSE LET attribute_value_size == Len(attribute_value)
             is_percentage == attribute_value[attribute_value_size].kind = "percent"
             from_end_index == IF is_percentage THEN 1 ELSE 0
             parsed == attribute_value[1].kind = "number"
             next_index == IF parsed THEN 1 ELSE 0
             is_relative == next_index + from_end_index < attribute_value_size
             named == IF is_relative
                      THEN [value EXCEPT !.m_relative_name =
                                attribute_value[next_index + 1].text]
                      ELSE value
             is_value == ~is_relative /\ ~is_percentage
             multiplier == IF is_value THEN value.m_multiplier
                           ELSE IF parsed THEN Float(attribute_value[1].n)
                           ELSE Float(1)
             written == [named EXCEPT !.m_is_percentage = is_percentage,
                                      !.m_multiplier = multiplier,
                                      !.m_defaulted = FALSE]
         IN  IF is_value THEN set_value(written, Float(attribute_value[1].n))
             ELSE written

\* a lookup that yields 0 where the value is missing or of another type
get_float_OrZero(values, name) ==
    LET found == { n \in DOMAIN values :
                     values[n].float /\ (n = name \/ values[n].abbreviation = name) }
    IN  IF found = {} THEN Returned(0)
        ELSE Returned(values[CHOOSE n \in found : TRUE].value)

\* AncestorValues::get<float, ValueType::Float, FloatValue>
get_float(values, name) ==
    LET found == { n \in DOMAIN values :
                     values[n].float /\ (n = name \/ values[n].abbreviation = name) }
    IN  IF found = {} THEN Thrown
        ELSE Returned(values[CHOOSE n \in found : TRUE].value)

\* an evaluation that forgets the percentage
compute_relative_value_NoPercentage(value, values) ==
    IF value.m_relative_name = nullopt
    THEN Returned(FloatMul(value.m_value, value.m_multiplier))
    ELSE LET relative == get_float(values, value.m_relative_name)
         IN  IF relative.threw THEN Thrown
             ELSE Returned(FloatMul(relative.val, value.m_multiplier))

\* RelativeFloatTypeValue::compute_relative_value
compute_relative_value(value, values) ==
    LET relative == IF value.m_relative_name = nullopt THEN Returned(0)
                    ELSE get_float(values, value.m_relative_name)
        val == IF value.m_relative_name = nullopt
               THEN IF value.m_is_percentage THEN value.m_multiplier
                    ELSE FloatMul(value.m_value, value.m_multiplier)
               ELSE FloatMul(relative.val, value.m_multiplier)
        ancestor_value == get_float(values, value.name)
    IN  IF relative.threw THEN Thrown
        ELSE IF ~value.m_is_percentage THEN Returned(val)
        ELSE IF ancestor_value.threw THEN Thrown
        ELSE Returned(FloatMul(ancestor_value.val, FloatDiv(val, Float(100))))

\* FloatValue(name, abbreviation, value, false) as an entry of AncestorValues
FloatEntry(abbreviation, value) ==
    [float |-> TRUE, abbreviation |-> abbreviation, value |-> value]
\* an entry of another type, a StringValue say
OtherEntry(abbreviation) == [float |-> FALSE, abbreviation |-> abbreviation, value |-> 0]

\* AncestorValues::update_impl: insert_or_assign under the value's name
update_impl(values, name, entry) ==
    [n \in DOMAIN values \cup {name} |-> IF n = name THEN entry ELSE values[n]]


(* ------------------------------- state --------------------------------- *)
VARIABLES
    engineAlive,        \* the LayoutEngine object exists (owns m_event_server)
    serverRefs,         \* threads holding a shared_ptr<EventServer> from weak.lock()
    m_events,           \* EventServer::m_events
    m_listener_pos,     \* EventServer::m_listener_pos : token -> ListenerPosition
    m_token_counter,    \* EventServer::m_token_counter
    m_event_mutex,      \* EventServer::m_event_mutex (recursive)
    cv_waiters,         \* threads blocked in m_cond_var
    m_exclusive_transaction_mutex,  \* LayoutEngine's recursive mutex
    m_rendered,         \* RenderTree::m_rendered : path -> geometry
    nodeTree,           \* the node tree, named by the scene its render produces
    handles,            \* per producer: the NodeTransaction objects it holds
    pending,            \* per producer: events render() still has to construct
    pc,                 \* per thread: position in the current call
    listeners,          \* per consumer: tokens of the EventListeners it owns
    cur,                \* per consumer: the token its current call is on
    last,               \* per thread: what its last call returned
    received,           \* per token: the events returned to that listener so far
    registeredAt,       \* per token: registered with the log empty, or later
    appendedBy,         \* per log entry: the render that appended it
    renderCount,        \* renders that appended events so far
    completed,          \* those renders, in the order they returned
    rendering,          \* per producer: the transaction whose render() runs
    first_rendered,     \* differences_from: m_rendered of the tree it is called on
    last_rendered,      \* differences_from: m_rendered of other_render_tree
    forward_differences,\* what first.differences_from(last) returned
    reverse_differences,\* what last.differences_from(first) returned
    diffed,             \* which of the two calls have been made
    m_children,         \* Node::m_children, each child by its name
    m_templates,        \* Node::m_templates, each template by its name
    m_template_insertion_indexes,   \* Node::m_template_insertion_indexes
    ndebug,             \* the build compiles assert() out
    node_alive,         \* no assert of the node's process has failed
    node_result,        \* what the last call on the node did
    history,            \* the calls made on the node so far
    bounds_a,           \* Bounds::operator+: the bounds a
    bounds_b,           \* Bounds::operator+: the bounds b
    bounds_sums,        \* the sums a + b and b + a once computed
    dependencies,       \* topological_sort_with_aliases: name -> optional dependency
    ordered_names,      \* what topological_sort_with_aliases returned or threw
    m_width,            \* SizeFeature::m_width, a RelativeFloatValue
    attribute_values,   \* the attribute values m_width was updated from
    known_values,       \* the AncestorValues each render hands to the element
    ancestor_values,    \* that AncestorValues after update_ancestor_values
    evaluations,        \* what compute_relative_value returned, call by call
    node_heap,          \* the Node objects of one tree, the root first
    looked_up,          \* the find_descendant call made and what it returned
    scoped_nodes,       \* Node::render: the nodes of a tree with their elements
    scopes,             \* Node::render: the AncestorValues each node had
    drawn_scene,        \* render_from_root: the node tree rendered
    drawn_tree,         \* render_from_root: the RenderTree it leaves
    moving_tree,        \* move_parent_and_descendants_by: the RenderTree before
    moved_tree,         \* move_parent_and_descendants_by: the RenderTree after
    move_call,          \* the call made: path, by_pos, excluding
    padding_element,    \* PaddingElement: its three lengths, and whether it rendered
    padding_tree,       \* PaddingElement::render: the RenderTree before
    padded_tree,        \* PaddingElement::render: the RenderTree after
    aligning_tree,      \* JuxtaposeFeatureSet::align: the RenderTree before
    aligned_tree,       \* JuxtaposeFeatureSet::align: the RenderTree after
    align_call          \* the call made: our_axis, our_alignment

evars == <<m_events, m_listener_pos, m_token_counter, m_event_mutex, cv_waiters>>
tvars == <<m_exclusive_transaction_mutex, m_rendered, nodeTree, handles, pending>>
gvars == <<received, registeredAt, appendedBy, renderCount, completed>>
engine_vars == <<engineAlive, serverRefs, evars, tvars, pc, listeners, cur, last, gvars,
                 rendering>>
cvars == <<first_rendered, last_rendered, forward_differences,
           reverse_differences, diffed>>
bvars == <<bounds_a, bounds_b, bounds_sums>>
svars == <<dependencies, ordered_names>>
rvars == <<m_width, attribute_values, known_values, ancestor_values, evaluations>>
hvars == <<node_heap, looked_up>>
pvars == <<bvars, svars, rvars, hvars>>
avars == <<scoped_nodes, scopes>>
yvars == <<drawn_scene, drawn_tree>>
mvars == <<moving_tree, moved_tree, move_call>>
qvars == <<padding_element, padding_tree, padded_tree>>
lvars == <<aligning_tree, aligned_tree, align_call>>
xvars == <<avars, yvars, mvars, qvars, lvars>>
dvars == <<cvars, pvars, xvars>>
nvars == <<m_children, m_templates, m_template_insertion_indexes, ndebug,
           node_alive, node_result, history>>
vars == <<engine_vars, dvars, nvars>>

(* ------------------------------ mutexes -------------------------------- *)
FreeMutex == [owner |-> NoThread, count |-> 0]

\* std::recursive_mutex::lock returns when the mutex is free or already ours
CanLock(m, t) == m.owner = NoThread \/ m.owner = t

Locked(m, t) == [owner |-> t, count |-> m.count + 1]

\* an unlock that gives the mutex up whatever its count
Unlocked_Whole(m) == FreeMutex

\* an unlock that leaves the mutex with its owner
Unlocked_Kept(m) == m

\* std::recursive_mutex::unlock: one level of ownership less
Unlocked(m) ==
    IF m.count <= 1 THEN FreeMutex ELSE [m EXCEPT !.count = @ - 1]

(* ---------------------------- shared_ptr ------------------------------- *)
\* the EventServer lives while the engine or a locked weak_ptr owns it
ServerAlive == engineAlive \/ serverRefs # {}

(* --------------------------- event server ------------------------------ *)
Filters == {"ReceiveAll", "SkipNonDrawable"}

\* index_of_next_event with the drawable test the wrong way round
RECURSIVE index_of_next_event_Inverted(_, _)
index_of_next_event_Inverted(pos, index) ==
    IF index < Len(m_events)
       /\ pos.filter = "SkipNonDrawable"
       /\ should_draw(m_events[index + 1].geometry)
    THEN index_of_next_event_Inverted(pos, index + 1)
    ELSE index

\* EventServer::index_of_next_event, 1-based: pos.index events are consumed
RECURSIVE index_of_next_event(_, _)
index_of_next_event(pos, index) ==
    IF index < Len(m_events)
       /\ pos.filter = "SkipNonDrawable"
       /\ ~should_draw(m_events[index + 1].geometry)
    THEN index_of_next_event(pos, index + 1)
    ELSE index

\* EventServer::event_available
event_available(token) ==
    index_of_next_event(m_listener_pos[token], m_listener_pos[token].index)
        < Len(m_events)

\* EventServer::pop_event: the cursor after the pop
PopIndex(token) ==
    index_of_next_event(m_listener_pos[token], m_listener_pos[token].index)

\* pop_event that leaves the cursor on the event it returns
pop_event_NoAdvance(token) ==
    [m_listener_pos EXCEPT ![token].index =
        index_of_next_event(m_listener_pos[token], m_listener_pos[token].index)]

\* pop_event that steps over the event after the one it returns
pop_event_SkipOne(token) ==
    [m_listener_pos EXCEPT ![token].index =
        index_of_next_event(m_listener_pos[token], m_listener_pos[token].index) + 2]

pop_event(token) ==
    [m_listener_pos EXCEPT ![token].index = PopIndex(token) + 1]

NoResult == [op |-> "none", gone |-> FALSE, idx |-> 0]
Result(op, gone, idx) == [op |-> op, gone |-> gone, idx |-> idx]

Tokens == 0 .. (MaxTokens - 1)

\* a LayoutEngine after construction, no thread in a call
InitEngine ==
    /\ engineAlive = TRUE
    /\ serverRefs = {}
    /\ m_events = <<>>
    /\ m_listener_pos = [t \in {} |-> [filter |-> "ReceiveAll", index |-> 0]]
    /\ m_token_counter = 0
    /\ m_event_mutex = FreeMutex
    /\ cv_waiters = {}
    /\ m_exclusive_transaction_mutex = FreeMutex
    /\ m_rendered = EmptyTree
    /\ nodeTree = RootScene
    /\ handles = [p \in Producers |-> <<>>]
    /\ pending = [p \in Producers |-> <<>>]
    /\ pc = [t \in Threads |-> "idle"]
    /\ listeners = [c \in Consumers |-> {}]
    /\ cur = [c \in Consumers |-> NoToken]
    /\ last = [t \in Threads |-> NoResult]
    /\ received = [t \in Tokens |-> <<>>]
    /\ registeredAt = [t \in Tokens |-> "never"]
    /\ appendedBy = <<>>
    /\ renderCount = 0
    /\ completed = <<>>
    /\ rendering = [p \in Producers |-> 0]

\* no render tree has been compared
InitNoDiff ==
    /\ first_rendered = EmptyTree
    /\ last_rendered = EmptyTree
    /\ forward_differences = <<>>
    /\ reverse_differences = <<>>
    /\ diffed = {}

\* no two bounds have been added
NoSums == <<>>
InitNoBounds ==
    /\ bounds_a = NoBounds
    /\ bounds_b = NoBounds
    /\ bounds_sums = NoSums

\* topological_sort_with_aliases has not been called
NotCalled == [threw |-> "", names |-> <<>>, called |-> FALSE]
InitNoSort ==
    /\ dependencies = <<>>
    /\ ordered_names = NotCalled

InitNoValue ==
    /\ m_width = RelativeFloatValue("width", "w", default_width, TRUE)
    /\ attribute_values = <<>>
    /\ known_values = NoValues
    /\ ancestor_values = NoValues
    /\ evaluations = <<>>

\* a null shared_ptr<Node>, and the RootNode: NopElement(""), no parent
NullNode == 0
NewNode(parent, name) ==
    [m_parent |-> parent, name |-> name, m_children |-> <<>>, m_templates |-> <<>>,
     m_template_insertion_indexes |-> <<>>]
RootNode == NewNode(NullNode, "")
NotLooked == [receiver |-> NullNode, path |-> <<>>, node |-> NullNode, called |-> FALSE]
InitNoTree ==
    /\ node_heap = <<RootNode>>
    /\ looked_up = NotLooked

\* no node is being rendered on its own
NoScopes == <<>>
InitNoScope ==
    /\ scoped_nodes = <<>>
    /\ scopes = NoScopes
NotDrawn == [m_rendered |-> EmptyTree, m_insertion_order |-> <<>>]
InitNoDrawn ==
    /\ drawn_scene = Scene(FALSE, 0, <<>>)
    /\ drawn_tree = NotDrawn
NoMove == [path |-> <<>>, by_pos |-> Origin, excluding |-> {}, called |-> FALSE]
InitNoMove ==
    /\ moving_tree = NotDrawn
    /\ moved_tree = NotDrawn
    /\ move_call = NoMove
\* SizeFeature: a length that was never given
DefaultedLength == [m_value |-> 1, m_defaulted |-> TRUE]
NoPadding == [width |-> DefaultedLength, height |-> DefaultedLength,
              depth |-> DefaultedLength, rendered |-> FALSE]
InitNoPadding ==
    /\ padding_element = NoPadding
    /\ padding_tree = NotDrawn
    /\ padded_tree = NotDrawn
NoAlign == [our_axis |-> "X", our_alignment |-> "left", called |-> FALSE]
InitNoAlign ==
    /\ aligning_tree = NotDrawn
    /\ aligned_tree = NotDrawn
    /\ align_call = NoAlign
InitNoExtra ==
    /\ InitNoScope
    /\ InitNoDrawn
    /\ InitNoMove
    /\ InitNoPadding
    /\ InitNoAlign

\* no function of the value library is being applied
InitNoPure ==
    /\ InitNoExtra
    /\ InitNoBounds
    /\ InitNoSort
    /\ InitNoValue
    /\ InitNoTree

NoCall == [op |-> "none", template_name |-> "", name |-> "", outcome |-> "none"]

\* a node after Node::construct: no children, no templates
InitNode ==
    /\ m_children = <<>>
    /\ m_templates = <<>>
    /\ m_template_insertion_indexes = <<>>
    /\ node_alive = TRUE
    /\ node_result = NoCall
    /\ history = <<>>

Init ==
    /\ InitEngine
    /\ InitNoDiff
    /\ InitNode
    /\ InitNoPure
    /\ ndebug = FALSE

(* ------------------------- a call has returned ------------------------ *)
\* the caller has taken the result of its last call
Return(t) ==
    /\ pc[t] = "ret"
    /\ pc' = [pc EXCEPT ![t] = "idle"]
    /\ last' = [last EXCEPT ![t] = NoResult]
    /\ cur' = [c \in Consumers |-> IF c = t THEN NoToken ELSE cur[c]]
    /\ UNCHANGED <<engineAlive, serverRefs, evars, tvars, listeners, gvars>>
    /\ UNCHANGED <<rendering, dvars, nvars>>

(* ------------------- entering a locked region -------------------------- *)
\* std::unique_lock<std::recursive_mutex> lock(m_event_mutex), and the
\* re-acquisition that ends a condition-variable wait
AfterLock(at) ==
    CASE at = "req_lock" -> "req_cs"
      [] at = "rel_lock" -> "rel_cs"
      [] at = "poll_lock" -> "poll_cs"
      [] at = "listen_lock" -> "listen_cs"
      [] at = "twait_lock" -> "twait_cs"
      [] at = "emit_lock" -> "emit_cs"
      [] OTHER -> at

LockEvents(t) ==
    /\ AfterLock(pc[t]) # pc[t]
    /\ CanLock(m_event_mutex, t)
    /\ m_event_mutex' = Locked(m_event_mutex, t)
    /\ pc' = [pc EXCEPT ![t] = AfterLock(pc[t])]
    /\ UNCHANGED <<engineAlive, serverRefs, m_events, m_listener_pos,
                   m_token_counter, cv_waiters, tvars, listeners, cur, last, gvars>>
    /\ UNCHANGED <<rendering, dvars, nvars>>

(* --------------------------- request_listener -------------------------- *)
\* LayoutEngine::request_listener -> EventServer::request_listener
RequestCall(c, n) ==
    /\ pc[c] = "idle"
    /\ engineAlive
    /\ m_token_counter < n
    /\ pc' = [pc EXCEPT ![c] = "req_lock"]
    /\ UNCHANGED <<engineAlive, serverRefs, evars, tvars, listeners, cur, last, gvars>>
    /\ UNCHANGED <<rendering, dvars, nvars>>

\* request_listener that starts the cursor at the end of the log
request_listener_FromNow(filter) ==
    [t \in DOMAIN m_listener_pos \cup {m_token_counter} |->
        IF t \in DOMAIN m_listener_pos THEN m_listener_pos[t]
        ELSE [filter |-> filter, index |-> Len(m_events)]]

\* m_listener_pos.emplace(token, { filter, 0 })
request_listener(filter) ==
    [t \in DOMAIN m_listener_pos \cup {m_token_counter} |->
        IF t \in DOMAIN m_listener_pos THEN m_listener_pos[t]
        ELSE [filter |-> filter, index |-> 0]]

RequestBody(c, filter) ==
    /\ pc[c] = "req_cs"
    /\ m_listener_pos' = request_listener(filter)
    /\ m_token_counter' = m_token_counter + 1
    /\ listeners' = [listeners EXCEPT ![c] = @ \cup {m_token_counter}]
    /\ m_event_mutex' = Unlocked(m_event_mutex)
    /\ registeredAt' = [registeredAt EXCEPT ![m_token_counter] =
                          IF m_events = <<>> THEN "early" ELSE "late"]
    /\ pc' = [pc EXCEPT ![c] = "idle"]
    /\ UNCHANGED <<engineAlive, serverRefs, m_events, cv_waiters, tvars, cur,
                   last, received, appendedBy, renderCount, completed>>
    /\ UNCHANGED <<rendering, dvars, nvars>>

(* ----------------------- ~EventListener / release ---------------------- *)
\* EventListener::~EventListener
DestroyCall(c, token) ==
    /\ pc[c] = "idle"
    /\ token \in listeners[c]
    /\ IF ServerAlive
       THEN /\ serverRefs' = serverRefs \cup {c}
            /\ pc' = [pc EXCEPT ![c] = "rel_lock"]
            /\ cur' = [cur EXCEPT ![c] = token]
            /\ UNCHANGED listeners
       ELSE /\ listeners' = [listeners EXCEPT ![c] = @ \ {token}]
            /\ UNCHANGED <<serverRefs, pc, cur>>
    /\ UNCHANGED <<engineAlive, evars, tvars, last, gvars>>
    /\ UNCHANGED <<rendering, dvars, nvars>>

\* release_listener that clears m_listener_pos
release_listener_Clear(token) ==
    [t \in {} |-> m_listener_pos[t]]

\* EventServer::release_listener
release_listener(token) ==
    [t \in DOMAIN m_listener_pos \ {token} |-> m_listener_pos[t]]

ReleaseBody(c) ==
    /\ pc[c] = "rel_cs"
    /\ m_listener_pos' = release_listener(cur[c])
    /\ m_event_mutex' = Unlocked(m_event_mutex)
    /\ serverRefs' = serverRefs \ {c}
    /\ listeners' = [listeners EXCEPT ![c] = @ \ {cur[c]}]
    /\ cur' = [cur EXCEPT ![c] = NoToken]
    /\ received' = [received EXCEPT ![cur[c]] = <<>>]
    /\ registeredAt' = [registeredAt EXCEPT ![cur[c]] = "never"]
    /\ pc' = [pc EXCEPT ![c] = "idle"]
    /\ UNCHANGED <<engineAlive, m_events, m_token_counter, cv_waiters, tvars, last,
                   appendedBy, renderCount, completed>>
    /\ UNCHANGED <<rendering, dvars, nvars>>

(* ----------------------- listeners, cur calls: entry ------------------------- *)
\* a listener call that uses the server without testing the locked pointer
ListenerCall_NoCheck(c, token, op, next) ==
    /\ pc[c] = "idle"
    /\ token \in listeners[c]
    /\ serverRefs' = serverRefs \cup {c}
    /\ pc' = [pc EXCEPT ![c] = next]
    /\ cur' = [cur EXCEPT ![c] = token]
    /\ UNCHANGED <<engineAlive, evars, tvars, listeners, last, gvars>>
    /\ UNCHANGED <<rendering, dvars, nvars>>

\* auto shared_event_server = m_event_server.lock(); if (!shared) return gone
ListenerCall(c, token, op, next) ==
    /\ pc[c] = "idle"
    /\ token \in listeners[c]
    /\ IF ServerAlive
       THEN /\ serverRefs' = serverRefs \cup {c}
            /\ pc' = [pc EXCEPT ![c] = next]
            /\ UNCHANGED last
       ELSE /\ last' = [last EXCEPT ![c] = Result(op, TRUE, 0)]
            /\ pc' = [pc EXCEPT ![c] = "ret"]
            /\ UNCHANGED serverRefs
    /\ cur' = [cur EXCEPT ![c] = token]
    /\ UNCHANGED <<engineAlive, evars, tvars, listeners, gvars>>
    /\ UNCHANGED <<rendering, dvars, nvars>>

\* EventListener::poll
PollCall(c, token) == ListenerCall(c, token, "poll", "poll_lock")

\* EventListener::listen
ListenCall(c, token) == ListenerCall(c, token, "listen", "listen_lock")

\* EventListener::try_listen_for
TryListenCall(c, token) == ListenerCall(c, token, "try_listen_for", "twait_lock")

(* ----------------------- listeners, cur calls: return ------------------------ *)
\* return pop_event(token): the cursor moves, the event is copied out, the
\* unique_lock and the shared_ptr go out of scope
ReturnEvent(c, op) ==
    /\ m_listener_pos' = pop_event(cur[c])
    /\ last' = [last EXCEPT ![c] = Result(op, FALSE, PopIndex(cur[c]) + 1)]
    /\ received' = [received EXCEPT ![cur[c]] =
                      Append(@, [idx |-> PopIndex(cur[c]) + 1,
                                 ev |-> m_events[PopIndex(cur[c]) + 1]])]
    /\ m_event_mutex' = Unlocked(m_event_mutex)
    /\ serverRefs' = serverRefs \ {c}
    /\ pc' = [pc EXCEPT ![c] = "ret"]
    /\ UNCHANGED <<engineAlive, m_events, m_token_counter, cv_waiters, tvars,
                   listeners, cur, registeredAt, appendedBy, renderCount,
                   completed>>
    /\ UNCHANGED <<rendering, dvars, nvars>>

\* return {} that first moves the cursor past the events the filter skips
ReturnNone_AdvanceCursor(c, op) ==
    /\ m_listener_pos' = [m_listener_pos EXCEPT ![cur[c]].index =
                             index_of_next_event(m_listener_pos[cur[c]], @)]
    /\ last' = [last EXCEPT ![c] = Result(op, FALSE, 0)]
    /\ m_event_mutex' = Unlocked(m_event_mutex)
    /\ serverRefs' = serverRefs \ {c}
    /\ pc' = [pc EXCEPT ![c] = "ret"]
    /\ UNCHANGED <<engineAlive, m_events, m_token_counter, cv_waiters, tvars,
                   listeners, cur, gvars>>
    /\ UNCHANGED <<rendering, dvars, nvars>>

\* return {}: nothing else changes
ReturnNone(c, op) ==
    /\ last' = [last EXCEPT ![c] = Result(op, FALSE, 0)]
    /\ m_event_mutex' = Unlocked(m_event_mutex)
    /\ serverRefs' = serverRefs \ {c}
    /\ pc' = [pc EXCEPT ![c] = "ret"]
    /\ UNCHANGED <<engineAlive, m_events, m_listener_pos, m_token_counter,
                   cv_waiters, tvars, listeners, cur, gvars>>
    /\ UNCHANGED <<rendering, dvars, nvars>>

\* m_cond_var.wait: release the lock and join the waiters in one step
Block(c, at) ==
    /\ cv_waiters' = cv_waiters \cup {c}
    /\ m_event_mutex' = Unlocked(m_event_mutex)
    /\ pc' = [pc EXCEPT ![c] = at]
    /\ UNCHANGED <<engineAlive, serverRefs, m_events, m_listener_pos,
                   m_token_counter, tvars, listeners, cur, last, gvars>>
    /\ UNCHANGED <<rendering, dvars, nvars>>

\* EventServer::try_pop_event
PollBody(c) ==
    /\ pc[c] = "poll_cs"
    /\ IF event_available(cur[c])
       THEN ReturnEvent(c, "poll")
       ELSE ReturnNone(c, "poll")

\* EventServer::wait_for_event
ListenBody(c) ==
    /\ pc[c] = "listen_cs"
    /\ IF event_available(cur[c])
       THEN ReturnEvent(c, "listen")
       ELSE Block(c, "listen_blocked")

\* EventServer::try_wait_for_event_for: the wait_for; with the predicate
\* false the call either keeps waiting or, the time being up, returns {}
TryListenBody(c) ==
    /\ pc[c] = "twait_cs"
    /\ IF event_available(cur[c])
       THEN /\ pc' = [pc EXCEPT ![c] = "twait_pop"]
            /\ UNCHANGED <<engineAlive, serverRefs, evars, tvars, listeners,
                           cur, last, gvars>>
       ELSE \/ Block(c, "twait_blocked")
            \/ ReturnNone(c, "try_listen_for")
    /\ UNCHANGED <<rendering, dvars, nvars>>

\* ... return try_pop_event(token), the lock taken a second time
TryListenPop(c) ==
    /\ pc[c] = "twait_pop"
    /\ IF event_available(cur[c])
       THEN ReturnEvent(c, "try_listen_for")
       ELSE ReturnNone(c, "try_listen_for")

\* the timeout of wait_for expires while the thread is blocked
Timeout(c) ==
    /\ pc[c] = "twait_blocked"
    /\ cv_waiters' = cv_waiters \ {c}
    /\ pc' = [pc EXCEPT ![c] = "twait_lock"]
    /\ UNCHANGED <<engineAlive, serverRefs, m_events, m_listener_pos,
                   m_token_counter, m_event_mutex, tvars, listeners, cur, last,
                   gvars>>
    /\ UNCHANGED <<rendering, dvars, nvars>>

\* condition variables may wake without a notification
SpuriousWake(c) ==
    /\ pc[c] = "listen_blocked"
    /\ cv_waiters' = cv_waiters \ {c}
    /\ pc' = [pc EXCEPT ![c] = "listen_lock"]
    /\ UNCHANGED <<engineAlive, serverRefs, m_events, m_listener_pos,
                   m_token_counter, m_event_mutex, tvars, listeners, cur, last,
                   gvars>>
    /\ UNCHANGED <<rendering, dvars, nvars>>

(* ----------------------------- render tree ----------------------------- *)
\* the keys of a std::map<Path, Geometry>, in iteration order
RECURSIVE SortedPaths(_)
SortedPaths(S) ==
    IF S = {} THEN <<>>
    ELSE LET least == CHOOSE p \in S : \A q \in S \ {p} : PathLess(p, q)
         IN  <<least>> \o SortedPaths(S \ {least})

Difference(path, kind) == [path |-> path, difference |-> kind]

\* the four field comparisons, made in the opposite order
FieldDifferences_TextFirst(path, first, last_) ==
    (IF first.text # last_.text THEN <<Difference(path, "Text")>> ELSE <<>>)
    \o (IF first.color # last_.color THEN <<Difference(path, "Color")>> ELSE <<>>)
    \o (IF first.bounds # last_.bounds THEN <<Difference(path, "Bounds")>> ELSE <<>>)
    \o (IF first.pos # last_.pos THEN <<Difference(path, "Pos")>> ELSE <<>>)

\* the four field comparisons of a path both trees have
FieldDifferences(path, first, last_) ==
    (IF first.pos # last_.pos THEN <<Difference(path, "Pos")>> ELSE <<>>)
    \o (IF first.bounds # last_.bounds THEN <<Difference(path, "Bounds")>> ELSE <<>>)
    \o (IF first.color # last_.color THEN <<Difference(path, "Color")>> ELSE <<>>)
    \o (IF first.text # last_.text THEN <<Difference(path, "Text")>> ELSE <<>>)

\* a merge that stops when either tree runs out, without the two loops
\* over what is left of the other
RECURSIVE MergeDifferences_NoRest(_, _, _, _)
MergeDifferences_NoRest(firstKeys, lastKeys, self, other) ==
    IF firstKeys = <<>> \/ lastKeys = <<>> THEN <<>>
    ELSE IF PathLess(Head(firstKeys), Head(lastKeys)) THEN
        <<Difference(Head(firstKeys), "SecondMissing")>>
            \o MergeDifferences_NoRest(Tail(firstKeys), lastKeys, self, other)
    ELSE IF PathLess(Head(lastKeys), Head(firstKeys)) THEN
        <<Difference(Head(lastKeys), "FirstMissing")>>
            \o MergeDifferences_NoRest(firstKeys, Tail(lastKeys), self, other)
    ELSE
        FieldDifferences(Head(firstKeys), self[Head(firstKeys)], other[Head(lastKeys)])
            \o MergeDifferences_NoRest(Tail(firstKeys), Tail(lastKeys), self, other)

\* the merge of RenderTree::differences_from over both sorted key lists
RECURSIVE MergeDifferences(_, _, _, _)
MergeDifferences(firstKeys, lastKeys, self, other) ==
    IF firstKeys = <<>> /\ lastKeys = <<>> THEN <<>>
    ELSE IF lastKeys = <<>> THEN
        <<Difference(Head(firstKeys), "SecondMissing")>>
            \o MergeDifferences(Tail(firstKeys), lastKeys, self, other)
    ELSE IF firstKeys = <<>> THEN
        <<Difference(Head(lastKeys), "FirstMissing")>>
            \o MergeDifferences(firstKeys, Tail(lastKeys), self, other)
    ELSE IF PathLess(Head(firstKeys), Head(lastKeys)) THEN
        <<Difference(Head(firstKeys), "SecondMissing")>>
            \o MergeDifferences(Tail(firstKeys), lastKeys, self, other)
    ELSE IF PathLess(Head(lastKeys), Head(firstKeys)) THEN
        <<Difference(Head(lastKeys), "FirstMissing")>>
            \o MergeDifferences(firstKeys, Tail(lastKeys), self, other)
    ELSE
        FieldDifferences(Head(firstKeys), self[Head(firstKeys)], other[Head(lastKeys)])
            \o MergeDifferences(Tail(firstKeys), Tail(lastKeys), self, other)

\* a comparison that looks only at the paths of the tree it is called on
differences_from_OwnPaths(self, other) ==
    MergeDifferences(SortedPaths(DOMAIN self),
                     SortedPaths(DOMAIN self \cap DOMAIN other), self, other)

\* RenderTree::differences_from
differences_from(self, other) ==
    MergeDifferences(SortedPaths(DOMAIN self), SortedPaths(DOMAIN other), self, other)

\* a switch that reports a changed size as a move
EventOf_ResizeAsMove(d, new_render_tree, old_render_tree) ==
    [path |-> d.path,
     geometry |-> IF d.difference = "FirstMissing" THEN old_render_tree[d.path]
                  ELSE new_render_tree[d.path],
     type |-> CASE d.difference = "FirstMissing" -> "Remove"
                [] d.difference = "SecondMissing" -> "Add"
                [] d.difference \in {"Pos", "Bounds"} -> "Move"
                [] d.difference = "Color" -> "Recolor"
                [] d.difference = "Text" -> "Retext"]

\* the switch of try_update_events_based_on_render_tree_differences
EventOf(d, new_render_tree, old_render_tree) ==
    CASE d.difference = "FirstMissing" ->
            [path |-> d.path, geometry |-> old_render_tree[d.path], type |-> "Remove"]
      [] d.difference = "SecondMissing" ->
            [path |-> d.path, geometry |-> new_render_tree[d.path], type |-> "Add"]
      [] d.difference = "Pos" ->
            [path |-> d.path, geometry |-> new_render_tree[d.path], type |-> "Move"]
      [] d.difference = "Bounds" ->
            [path |-> d.path, geometry |-> new_render_tree[d.path], type |-> "Resize"]
      [] d.difference = "Color" ->
            [path |-> d.path, geometry |-> new_render_tree[d.path], type |-> "Recolor"]
      [] d.difference = "Text" ->
            [path |-> d.path, geometry |-> new_render_tree[d.path], type |-> "Retext"]

EventsOf(differences, new_render_tree, old_render_tree) ==
    [i \in 1 .. Len(differences) |->
        EventOf(differences[i], new_render_tree, old_render_tree)]

(* --------------------------- render tree ops --------------------------- *)
\* Path::is_descendant_of(other, or_are_same) and Path::is_child_of
is_descendant_of(path, other, or_are_same) ==
    /\ Len(other) <= Len(path)
    /\ or_are_same \/ Len(other) # Len(path)
    /\ SubSeq(path, 1, Len(other)) = other
is_child_of(path, other) ==
    Len(path) = Len(other) + 1 /\ is_descendant_of(path, other, FALSE)

\* a RenderTree under construction: m_rendered and m_insertion_order
NewRenderTree == [m_rendered |-> EmptyTree, m_insertion_order |-> <<>>]

\* RenderTree::update
update(tree, path, geometry) ==
    [m_rendered |-> (path :> geometry) @@ tree.m_rendered,
     m_insertion_order |->
        IF path \in DOMAIN tree.m_rendered THEN tree.m_insertion_order
        ELSE Append(tree.m_insertion_order, path)]

\* RenderTree::children_of: the child paths, in insertion order
children_of(tree, path) ==
    SelectSeq(tree.m_insertion_order, LAMBDA q : is_child_of(q, path))

\* the += of the positioned bounds of the listed paths onto bounds
RECURSIVE AddPositionedBounds(_, _, _)
AddPositionedBounds(bounds, tree, paths) ==
    IF paths = <<>> THEN bounds
    ELSE AddPositionedBounds(
            BoundsAdd(bounds, positioned_bounds(tree.m_rendered[Head(paths)])),
            tree, Tail(paths))

\* RenderTree::positioned_bounds_of: over the path and its descendants in
\* map order, starting from the first one found
positioned_bounds_of(tree, path) ==
    LET found == SelectSeq(SortedPaths(DOMAIN tree.m_rendered),
                           LAMBDA q : is_descendant_of(q, path, TRUE))
    IN  IF found = <<>> THEN NoBounds
        ELSE AddPositionedBounds(positioned_bounds(tree.m_rendered[Head(found)]),
                                 tree, Tail(found))

\* a move whose loop takes the parent for one of its descendants
move_parent_and_descendants_by_impl_Twice(tree, path, by_pos, excluding, excluding_parent) ==
    LET parent_moved ==
            IF ~excluding_parent /\ path \in DOMAIN tree.m_rendered
            THEN [tree.m_rendered EXCEPT ![path] = offset_pos(@, by_pos)]
            ELSE tree.m_rendered
    IN  [tree EXCEPT !.m_rendered =
            [q \in DOMAIN parent_moved |->
                IF is_descendant_of(q, path, TRUE)
                   /\ \A excluded \in excluding : ~is_descendant_of(q, excluded, TRUE)
                THEN offset_pos(parent_moved[q], by_pos)
                ELSE parent_moved[q]]]

\* RenderTree::move_parent_and_descendants_by_impl; excluding is the pointer
\* excluding_subdescendants_of: the empty set when null, else the one path
move_parent_and_descendants_by_impl(tree, path, by_pos, excluding, excluding_parent) ==
    LET parent_moved ==
            IF ~excluding_parent /\ path \in DOMAIN tree.m_rendered
            THEN [tree.m_rendered EXCEPT ![path] = offset_pos(@, by_pos)]
            ELSE tree.m_rendered
    IN  [tree EXCEPT !.m_rendered =
            [q \in DOMAIN parent_moved |->
                IF is_descendant_of(q, path, FALSE)
                   /\ \A excluded \in excluding : ~is_descendant_of(q, excluded, TRUE)
                THEN offset_pos(parent_moved[q], by_pos)
                ELSE parent_moved[q]]]

\* RenderTree::move_parent_and_descendants_by
move_parent_and_descendants_by(tree, path, by_pos) ==
    [tree EXCEPT !.m_rendered =
        [q \in DOMAIN @ |->
            IF is_descendant_of(q, path, TRUE) THEN offset_pos(@[q], by_pos) ELSE @[q]]]

\* a sweep that advances by the width alone
RECURSIVE juxtapose_NoSpacing(_, _, _, _, _)
juxtapose_NoSpacing(tree, paths, i, offset_pt, spacing) ==
    IF i > Len(paths) THEN tree
    ELSE LET bounds == strip_pos(positioned_bounds_of(tree, paths[i]))
         IN  juxtapose_NoSpacing(
                 move_parent_and_descendants_by(tree, paths[i], offset_pt),
                 paths, i + 1, PointAdd(offset_pt, <<width(bounds), 0, 0>>),
                 spacing)

\* JuxtaposeFeatureSet::juxtapose along the default axis X, from child i on
RECURSIVE juxtapose(_, _, _, _, _)
juxtapose(tree, paths, i, offset_pt, spacing) ==
    IF i > Len(paths) THEN tree
    ELSE LET bounds == strip_pos(positioned_bounds_of(tree, paths[i]))
             our_spacing == IF i # Len(paths) THEN spacing ELSE 0
         IN  juxtapose(move_parent_and_descendants_by(tree, paths[i], offset_pt),
                       paths, i + 1,
                       PointAdd(offset_pt, <<width(bounds) + our_spacing, 0, 0>>),
                       spacing)

\* JuxtaposeElement::render with the axis and the lengths left to their
\* defaults: no centring, no alignment
JuxtaposeElement_render(tree, path, spacing) ==
    LET our_paths == children_of(tree, path)
    IN  IF our_paths = <<>> THEN tree
        ELSE LET laid == juxtapose(tree, our_paths, 1, Origin, spacing)
                 pos_bounds == AddPositionedBounds(NoBounds, laid, our_paths)
             IN  update(laid, path, EmptyGeometry(pos_bounds.base, strip_pos(pos_bounds)))

\* a node without geometry that is left without
insert_rendered_bounds_from_children_Skipped(tree, path) == tree

\* Node::insert_rendered_bounds_from_children
insert_rendered_bounds_from_children(tree, path) ==
    LET bounds == AddPositionedBounds(NoBounds, tree, children_of(tree, path))
    IN  update(tree, path, EmptyGeometry(bounds.base, strip_pos(bounds)))

(* ------------------------------ node tree ------------------------------ *)
\* the node trees the producers of Spec build
Scenes == {RootScene, BoxScene}

\* the node trees of the render specification: a juxtapose j with spacing 1
\* over boxes a, b, c
PairScene ==
    Scene(TRUE, 1, <<BoxElement(1, 2, 1, 1, default_color, ""),
                     BoxElement(2, 3, 1, 1, default_color, "")>>)
WidenedScene ==
    Scene(TRUE, 1, <<BoxElement(1, 4, 1, 1, default_color, ""),
                     BoxElement(2, 3, 1, 1, default_color, "")>>)
SingleScene == Scene(TRUE, 0, <<BoxElement(2, 2, 3, 4, Coral, "")>>)
ReplacedScene ==
    Scene(TRUE, 1, <<BoxElement(2, 2, 1, 1, Coral, "b"),
                     BoxElement(3, 1, 1, 1, default_color, "")>>)
RenderScenes == {PairScene, WidenedScene, SingleScene, ReplacedScene}

\* the AncestorValues a box is rendered with: children and equal from
\* Node::update_hierarchical_ancestor_values, and under a juxtapose the
\* spacing and the axis the juxtapose was given
box_ancestor_values(scene) ==
    LET num_children == Len(scene.boxes)
        hierarchical ==
            update_impl(update_impl(NoValues, "children",
                                    FloatEntry("n", Float(num_children))),
                        "equal",
                        FloatEntry("eq", FloatDiv(Float(100), Float(num_children))))
    IN  IF scene.juxtaposed
        THEN update_impl(update_impl(hierarchical, "spacing",
                                     FloatEntry("s", Float(scene.spacing))),
                         "axis", OtherEntry("axis"))
        ELSE hierarchical

\* the size values of a box after SizeFeature::update_from_attributes
box_size_values(b) ==
    [n \in {"width", "height", "depth"} |->
        IF n = "width"
        THEN update_from_attribute_value(
                 RelativeFloatValue("width", "w", default_width, TRUE),
                 IF b.relative = nullopt THEN <<Number(b.w)>> ELSE <<Name(b.relative)>>)
        ELSE IF n = "height"
        THEN update_from_attribute_value(
                 RelativeFloatValue("height", "h", default_width, TRUE), <<Number(b.h)>>)
        ELSE update_from_attribute_value(
                 RelativeFloatValue("depth", "d", default_width, TRUE), <<Number(b.d)>>)]

\* the loop of SizeFeature::compute_and_update_ancestor_values:
\* update_ancestor_values of each value in the order given
RECURSIVE update_sizes(_, _, _)
update_sizes(names, values, known) ==
    IF names = <<>> THEN [threw |-> FALSE, values |-> values]
    ELSE LET value == values[Head(names)]
             computed_value == compute_relative_value(value, known)
         IN  IF computed_value.threw THEN [threw |-> TRUE, values |-> values]
             ELSE update_sizes(
                      Tail(names),
                      [values EXCEPT ![Head(names)].m_value = computed_value.val],
                      IF value.m_defaulted THEN known
                      ELSE update_impl(known, value.name,
                                       FloatEntry(value.abbreviation,
                                                  computed_value.val)))

\* SizeFeature::compute_and_update_ancestor_values of a box
compute_and_update_ancestor_values(b, known) ==
    LET values == box_size_values(b)
        ordered == topological_sort_with_aliases(
                       [n \in DOMAIN values |-> values[n].m_relative_name], SizeAliases)
    IN  IF ordered.threw # "" THEN [threw |-> TRUE, values |-> values]
        ELSE update_sizes(ordered.names, values, known)

\* a float as the whole number it is
FromFloat(value) == value \div 100

\* the box with the width its values evaluate to
sized_box(b, scene) ==
    IF b.relative = nullopt THEN b
    ELSE [b EXCEPT !.w = FromFloat(compute_and_update_ancestor_values(
                                       b, box_ancestor_values(scene)).values["width"].m_value)]
sized_boxes(scene) == [i \in 1 .. Len(scene.boxes) |-> sized_box(scene.boxes[i], scene)]

\* the boxes whose update_ancestor_values throws
throwing_boxes(scene) ==
    { i \in 1 .. Len(scene.boxes) :
        /\ scene.boxes[i].relative # nullopt
        /\ compute_and_update_ancestor_values(scene.boxes[i],
                                              box_ancestor_values(scene)).threw }

\* Node::render of the boxes under parent, in child order: each is a leaf,
\* BaseBoxElement::render puts its geometry in the tree
RECURSIVE render_boxes(_, _, _)
render_boxes(tree, parent, boxes) ==
    IF boxes = <<>> THEN tree
    ELSE LET b == Head(boxes)
         IN  render_boxes(
                update(tree, Append(parent, b.name),
                       box_geometry(b.w, b.h, b.d, b.color, b.text)),
                parent, Tail(boxes))

\* Node::render of the node at path once its children are rendered: the
\* element renders, and a node still without geometry gets its children's
\* bounds
render_layout(tree, path, juxtaposed, spacing) ==
    LET rendered == IF juxtaposed THEN JuxtaposeElement_render(tree, path, spacing)
                    ELSE tree
    IN  IF path \in DOMAIN rendered.m_rendered THEN rendered
        ELSE insert_rendered_bounds_from_children(rendered, path)

\* RootNode::render_from_root on a render tree that a mutation has emptied
\* (rendering these node trees again over their own result gives the same)
render_tree_from_root(scene) ==
    LET parent == IF scene.juxtaposed THEN <<JName>> ELSE RootPath
        leaves == render_boxes(NewRenderTree, parent, sized_boxes(scene))
        inner == IF scene.juxtaposed
                 THEN render_layout(leaves, parent, TRUE, scene.spacing)
                 ELSE leaves
    IN  render_layout(inner, RootPath, FALSE, 0)
render_from_root(scene) == render_tree_from_root(scene).m_rendered

\* RootNode::render_from_root that an exception ends: Node::render works on
\* the render tree of the engine, so the boxes before the first one that
\* throws have their new geometry and every other path keeps what it had
first_throwing(scene) ==
    CHOOSE i \in throwing_boxes(scene) : \A j \in throwing_boxes(scene) : i <= j
render_until_thrown(rendered, scene) ==
    render_boxes([m_rendered |-> rendered, m_insertion_order |-> <<>>],
                 IF scene.juxtaposed THEN <<JName>> ELSE RootPath,
                 SubSeq(sized_boxes(scene), 1, first_throwing(scene) - 1)).m_rendered

(* ----------------------------- transactions ---------------------------- *)
\* transaction() that does not take the engine's mutex
transaction_NoLock(p) ==
    /\ pc[p] = "idle"
    /\ engineAlive
    /\ Len(handles[p]) < MaxOpen
    /\ handles' = [handles EXCEPT ![p] = Append(@, [m_old_render_tree |-> m_rendered])]
    /\ m_rendered' = EmptyTree
    /\ UNCHANGED <<engineAlive, serverRefs, evars, m_exclusive_transaction_mutex,
                   nodeTree, pending, pc, listeners, cur, last, gvars>>
    /\ UNCHANGED <<rendering, dvars, nvars>>

\* LayoutEngine::transaction: lock the engine's mutex, then the
\* NodeTransaction constructor copies the render tree and wipes it
\* (RenderTree::invalidate_parent_and_child_pos erases every entry)
transaction_nested(p, open) ==
    /\ pc[p] = "idle"
    /\ engineAlive
    /\ Len(handles[p]) < open
    /\ CanLock(m_exclusive_transaction_mutex, p)
    /\ m_exclusive_transaction_mutex' = Locked(m_exclusive_transaction_mutex, p)
    /\ handles' = [handles EXCEPT ![p] = Append(@, [m_old_render_tree |-> m_rendered])]
    /\ m_rendered' = EmptyTree
    /\ UNCHANGED <<engineAlive, serverRefs, evars, nodeTree, pending, pc,
                   listeners, cur, last, gvars>>
    /\ UNCHANGED <<rendering, dvars, nvars>>

\* LayoutEngine::transaction, by a thread that holds at most MaxOpen
transaction(p) == transaction_nested(p, MaxOpen)

\* the producer changes the tree through transaction->node(): every
\* mutator of Node (element(), set_element, add_child, remove_child) wipes
\* the render tree
Mutate(p, scene) ==
    /\ pc[p] = "idle"
    /\ handles[p] # <<>>
    /\ scene # nodeTree
    /\ nodeTree' = scene
    /\ m_rendered' = EmptyTree
    /\ UNCHANGED <<engineAlive, serverRefs, evars, m_exclusive_transaction_mutex,
                   handles, pending, pc, listeners, cur, last, gvars>>
    /\ UNCHANGED <<rendering, dvars, nvars>>

\* render that never tests the locked weak_ptr
RenderCall_IgnoreServer(p, h, cap) ==
    /\ pc[p] = "idle"
    /\ h \in 1 .. Len(handles[p])
    /\ LET new_render_tree == render_from_root(nodeTree)
           old_render_tree == handles[p][h].m_old_render_tree
           differences == differences_from(new_render_tree, old_render_tree)
       IN  /\ Len(m_events) + Len(differences) <= cap
           /\ differences # <<>>
           /\ m_rendered' = new_render_tree
           /\ serverRefs' = serverRefs \cup {p}
           /\ pending' = [pending EXCEPT ![p] =
                  EventsOf(differences, new_render_tree, old_render_tree)]
           /\ pc' = [pc EXCEPT ![p] = "emit_lock"]
           /\ renderCount' = renderCount + 1
           /\ last' = [last EXCEPT ![p] = Result("rendering", FALSE, renderCount + 1)]
           /\ rendering' = [rendering EXCEPT ![p] = h]
           /\ UNCHANGED completed
    /\ UNCHANGED <<engineAlive, evars, m_exclusive_transaction_mutex, nodeTree,
                   handles, listeners, cur, received, registeredAt,
                   appendedBy>>
    /\ UNCHANGED <<dvars, nvars>>

\* NodeTransaction::render up to the loop over the differences:
\* render_from_root, differences_from, m_event_server_weak_ptr.lock()
RenderCall(p, h, cap) ==
    /\ pc[p] = "idle"
    /\ h \in 1 .. Len(handles[p])
    /\ IF throwing_boxes(nodeTree) # {}
       THEN /\ m_rendered' = render_until_thrown(m_rendered, nodeTree)
            /\ last' = [last EXCEPT ![p] = Result("render_threw", FALSE, 0)]
            /\ pc' = [pc EXCEPT ![p] = "ret"]
            /\ UNCHANGED <<serverRefs, pending, renderCount, completed, rendering>>
       ELSE
       LET new_render_tree == render_from_root(nodeTree)
           old_render_tree == handles[p][h].m_old_render_tree
           differences == differences_from(new_render_tree, old_render_tree)
       IN  /\ Len(m_events) + Len(differences) <= cap
           /\ m_rendered' = new_render_tree
           /\ IF ~ServerAlive
              THEN /\ last' = [last EXCEPT ![p] = Result("render", TRUE, 0)]
                   /\ pc' = [pc EXCEPT ![p] = "ret"]
                   /\ UNCHANGED <<serverRefs, pending, renderCount, completed,
                                  rendering>>
              ELSE IF differences = <<>>
              THEN /\ last' = [last EXCEPT ![p] = Result("render", FALSE, 0)]
                   /\ pc' = [pc EXCEPT ![p] = "ret"]
                   /\ UNCHANGED <<serverRefs, pending, renderCount, completed,
                                  rendering>>
              ELSE /\ serverRefs' = serverRefs \cup {p}
                   /\ pending' = [pending EXCEPT ![p] =
                          EventsOf(differences, new_render_tree, old_render_tree)]
                   /\ pc' = [pc EXCEPT ![p] = "emit_lock"]
                   /\ renderCount' = renderCount + 1
                   /\ last' = [last EXCEPT ![p] = Result("rendering", FALSE, renderCount + 1)]
                   /\ rendering' = [rendering EXCEPT ![p] = h]
                   /\ UNCHANGED completed
    /\ UNCHANGED <<engineAlive, evars, m_exclusive_transaction_mutex, nodeTree,
                   handles, listeners, cur, received, registeredAt,
                   appendedBy>>
    /\ UNCHANGED <<dvars, nvars>>

\* EventServer::add_event under the lock: m_events.emplace_back; lock.unlock()
AddEvent(p) ==
    /\ pc[p] = "emit_cs"
    /\ m_events' = Append(m_events, Head(pending[p]))
    /\ appendedBy' = Append(appendedBy, last[p].idx)
    /\ m_event_mutex' = Unlocked(m_event_mutex)
    /\ pc' = [pc EXCEPT ![p] = "emit_notify"]
    /\ UNCHANGED <<engineAlive, serverRefs, m_listener_pos, m_token_counter,
                   cv_waiters, tvars, listeners, cur, last, received,
                   registeredAt, renderCount, completed>>
    /\ UNCHANGED <<rendering, dvars, nvars>>

\* a broadcast that leaves the waiter asleep
Woken_StaysBlocked(at) == at

\* where a woken waiter continues: it has to take the lock again
Woken(at) ==
    CASE at = "listen_blocked" -> "listen_lock"
      [] at = "twait_blocked" -> "twait_lock"
      [] OTHER -> at

\* m_cond_var.notify_all(), then the next difference or return true
NotifyAll(p) ==
    /\ pc[p] = "emit_notify"
    /\ cv_waiters' = {}
    /\ pending' = [pending EXCEPT ![p] = Tail(@)]
    /\ pc' = [t \in Threads |->
                IF t \in cv_waiters THEN Woken(pc[t])
                ELSE IF t # p THEN pc[t]
                ELSE IF Tail(pending[p]) = <<>> THEN "ret" ELSE "emit_lock"]
    /\ IF Tail(pending[p]) = <<>>
       THEN /\ serverRefs' = serverRefs \ {p}
            /\ completed' = Append(completed, last[p].idx)
            /\ last' = [last EXCEPT ![p] = Result("render", FALSE, last[p].idx)]
            /\ rendering' = [rendering EXCEPT ![p] = 0]
       ELSE UNCHANGED <<serverRefs, completed, last, rendering>>
    /\ UNCHANGED <<engineAlive, m_events, m_listener_pos, m_token_counter,
                   m_event_mutex, m_exclusive_transaction_mutex, m_rendered,
                   nodeTree, handles, listeners, cur, received, registeredAt,
                   appendedBy, renderCount>>
    /\ UNCHANGED <<dvars, nvars>>

\* the shared_ptr<NodeTransaction> is dropped: the deleter unlocks the
\* engine's mutex and deletes the transaction.  With the engine already
\* destroyed the deleter unlocks a destroyed mutex: any outcome.
DropTransaction(p) ==
    /\ pc[p] = "idle"
    /\ handles[p] # <<>>
    /\ handles' = [handles EXCEPT ![p] = SubSeq(@, 1, Len(@) - 1)]
    /\ IF engineAlive
       THEN m_exclusive_transaction_mutex' = Unlocked(m_exclusive_transaction_mutex)
       ELSE m_exclusive_transaction_mutex' \in
                {m_exclusive_transaction_mutex, Unlocked(m_exclusive_transaction_mutex)}
    /\ UNCHANGED <<engineAlive, serverRefs, evars, m_rendered, nodeTree, pending,
                   pc, listeners, cur, last, gvars>>
    /\ UNCHANGED <<rendering, dvars, nvars>>

(* ------------------------------ the engine ----------------------------- *)
\* ~LayoutEngine: the owner drops the engine, and with it the engine's
\* shared_ptr<EventServer>; no thread is inside one of the engine's methods
DropEngine ==
    /\ engineAlive
    /\ \A c \in Consumers : pc[c] \notin {"req_lock", "req_cs"}
    /\ engineAlive' = FALSE
    /\ UNCHANGED <<serverRefs, evars, tvars, pc, listeners, cur, last, gvars>>
    /\ UNCHANGED <<rendering, dvars, nvars>>

(* -------------------------------- Next --------------------------------- *)
\* the steps of the consumer threads Cs
ConsumerSteps(Cs, n) ==
    \E c \in Cs :
        \/ LockEvents(c)
        \/ Return(c)
        \/ RequestCall(c, n)
        \/ \E f \in Filters : RequestBody(c, f)
        \/ \E t \in Tokens : DestroyCall(c, t)
        \/ ReleaseBody(c)
        \/ \E t \in Tokens : PollCall(c, t)
        \/ PollBody(c)
        \/ \E t \in Tokens : ListenCall(c, t)
        \/ ListenBody(c)
        \/ \E t \in Tokens : TryListenCall(c, t)
        \/ TryListenBody(c)
        \/ TryListenPop(c)
        \/ Timeout(c)
        \/ SpuriousWake(c)

\* the steps of the producer threads Ps
ProducerSteps(Ps, Ss, cap) ==
    \E p \in Ps :
        \/ LockEvents(p)
        \/ Return(p)
        \/ transaction(p)
        \/ \E s \in Ss : Mutate(p, s)
        \/ \E h \in 1 .. MaxOpen : RenderCall(p, h, cap)
        \/ AddEvent(p)
        \/ NotifyAll(p)
        \/ DropTransaction(p)

\* the steps of producer threads that nest up to MaxNested transactions
NestingSteps(Ps, Ss, cap) ==
    \E p \in Ps :
        \/ LockEvents(p)
        \/ Return(p)
        \/ transaction_nested(p, MaxNested)
        \/ \E s \in Ss : Mutate(p, s)
        \/ \E h \in 1 .. MaxNested : RenderCall(p, h, cap)
        \/ AddEvent(p)
        \/ NotifyAll(p)
        \/ DropTransaction(p)

\* one producer thread and one consumer thread, which may own several
\* listeners, and the owner of the engine
Next ==
    \/ ProducerSteps({"p1"}, Scenes, MaxEvents)
    \/ ConsumerSteps(Consumers, MaxTokens)
    \/ DropEngine

Spec == Init /\ [][Next]_vars

\* the producer threads alone, contending for the transaction lock
NextTx ==
    \/ ProducerSteps(Producers, Scenes, MaxEvents)
    \/ DropEngine

SpecTx == Init /\ [][NextTx]_vars

\* the producer threads nesting transactions while the engine lives or dies
NextNested ==
    \/ NestingSteps(Producers, Scenes, MaxEvents)
    \/ DropEngine

SpecNested == Init /\ [][NextNested]_vars

\* one producer thread that starts from the bare root and renders the node
\* trees of RenderScenes while the engine lives
NextRender ==
    \/ ProducerSteps({"p1"}, RenderScenes, MaxRenderEvents)

SpecRender == Init /\ [][NextRender]_vars

\* node trees with a box whose width is relative: to its own height, to
\* itself through the abbreviation, to a value no ancestor has, and to the
\* axis of the juxtapose, which is no float
RelativeScene ==
    Scene(TRUE, 1, <<BoxElement(1, 2, 1, 1, default_color, ""),
                     RelativeBoxElement(2, "h", 3, 1, default_color, "")>>)
CycleScene ==
    Scene(TRUE, 1, <<BoxElement(1, 4, 1, 1, default_color, ""),
                     RelativeBoxElement(2, "w", 1, 1, default_color, "")>>)
MissingScene ==
    Scene(TRUE, 1, <<BoxElement(1, 4, 1, 1, default_color, ""),
                     RelativeBoxElement(2, "radius", 1, 1, default_color, ""),
                     BoxElement(3, 1, 1, 1, default_color, "")>>)
WrongTypeScene ==
    Scene(TRUE, 1, <<RelativeBoxElement(1, "axis", 1, 1, default_color, ""),
                     BoxElement(2, 3, 1, 1, default_color, "")>>)
ErrorScenes == {PairScene, RelativeScene, CycleScene, MissingScene, WrongTypeScene}

\* one producer thread that renders these node trees
NextRenderError ==
    \/ ProducerSteps({"p1"}, ErrorScenes, MaxRenderEvents)

SpecRenderError == Init /\ [][NextRenderError]_vars

(* ------------------------- comparing two trees ------------------------- *)
\* the paths and the geometries of the render trees that are compared: one
\* geometry, and the same geometry with one or with all of the compared
\* fields changed, and with only its triangles changed
DiffPaths == {<<1>>, <<2>>, <<1, 1>>}
UnitBox == box_geometry(1, 1, 1, default_color, "")
DiffGeometries ==
    { UnitBox,
      offset_pos(UnitBox, <<1, 0, 0>>),
      box_geometry(2, 1, 1, default_color, ""),
      box_geometry(1, 1, 1, Coral, ""),
      box_geometry(1, 1, 1, default_color, "b"),
      offset_pos(box_geometry(2, 1, 1, Coral, "b"), <<1, 0, 0>>),
      [UnitBox EXCEPT !.triangles = Tail(@)] }
DiffTrees == UNION {[D -> DiffGeometries] : D \in SUBSET DiffPaths}

\* two render trees, not yet compared
InitDiff ==
    /\ InitEngine
    /\ InitNode
    /\ InitNoPure
    /\ ndebug = FALSE
    /\ first_rendered \in DiffTrees
    /\ last_rendered \in DiffTrees
    /\ forward_differences = <<>>
    /\ reverse_differences = <<>>
    /\ diffed = {}

\* first.differences_from(last)
DifferencesFromCall ==
    /\ "forward" \notin diffed
    /\ forward_differences' = differences_from(first_rendered, last_rendered)
    /\ diffed' = diffed \cup {"forward"}
    /\ UNCHANGED <<engine_vars, first_rendered, last_rendered,
                   reverse_differences, nvars, pvars, xvars>>

\* last.differences_from(first)
ReverseDifferencesFromCall ==
    /\ "reverse" \notin diffed
    /\ reverse_differences' = differences_from(last_rendered, first_rendered)
    /\ diffed' = diffed \cup {"reverse"}
    /\ UNCHANGED <<engine_vars, first_rendered, last_rendered,
                   forward_differences, nvars, pvars, xvars>>

NextDiff ==
    \/ DifferencesFromCall
    \/ ReverseDifferencesFromCall

SpecDiff == InitDiff /\ [][NextDiff]_vars

(* --------------------- children and templates of a node --------------- *)
\* the names the calls on the node are made with
ChildNames == {"a", "b", "c"}
TemplateNames == {"t", "u"}

\* a shared_ptr<Node> that has been moved from
Null == "null"

\* a node in a build with or without assert()
InitNodes ==
    /\ InitEngine
    /\ InitNoDiff
    /\ InitNode
    /\ InitNoPure
    /\ ndebug \in BOOLEAN

Call(op, template_name, name, outcome) ==
    [op |-> op, template_name |-> template_name, name |-> name, outcome |-> outcome]

\* Node::has_child / the loop of Node::try_get_child
has_child(with_name) == \E i \in 1 .. Len(m_children) : m_children[i] = with_name

\* the loop of try_get_child reaches a moved-from child before it returns
reads_null(with_name) ==
    \E i \in 1 .. Len(m_children) :
        /\ m_children[i] = Null
        /\ \A j \in 1 .. i - 1 : m_children[j] # with_name

\* Node::try_get_template: the place of the first template of that name,
\* 0 when there is none
try_get_template(with_name) ==
    IF \E i \in 1 .. Len(m_templates) : m_templates[i] = with_name
    THEN CHOOSE i \in 1 .. Len(m_templates) :
            /\ m_templates[i] = with_name
            /\ \A j \in 1 .. i - 1 : m_templates[j] # with_name
    ELSE 0

\* an insertion index that is always the end of the children
compute_child_insertion_index_AtEnd(with_name) == Len(m_children)

\* Node::compute_child_insertion_index, for a template that exists
compute_child_insertion_index(with_name) ==
    m_template_insertion_indexes[try_get_template(with_name)]

\* std::vector::insert before the element at the 0-based insertion_index
InsertAt(children, insertion_index, name) ==
    SubSeq(children, 1, insertion_index) \o <<name>>
        \o SubSeq(children, insertion_index + 1, Len(children))

\* a failed assert(): abort() ends the process, nothing is changed
Abort(call) ==
    /\ node_alive' = FALSE
    /\ node_result' = call
    /\ history' = Append(history, call)
    /\ UNCHANGED <<m_children, m_templates, m_template_insertion_indexes>>

\* the call returns or throws with the node as it was
Unchanged(call) ==
    /\ node_result' = call
    /\ history' = Append(history, call)
    /\ UNCHANGED <<m_children, m_templates, m_template_insertion_indexes, node_alive>>

\* Node::add_child(node, {}): the assert on the names, then push_back
add_child(op, template_name, name) ==
    IF has_child(name) /\ ~ndebug
    THEN Abort(Call(op, template_name, name, "aborted"))
    ELSE /\ m_children' = Append(m_children, name)
         /\ node_result' = Call(op, template_name, name, "ok")
         /\ history' = Append(history, node_result')
         /\ UNCHANGED <<m_templates, m_template_insertion_indexes, node_alive>>

\* Node::add_child(node, insertion_index): the asserts, the indexes at or
\* after insertion_index grow by one, then insert.  Without the assert an
\* insertion_index past the end is an insert at an invalid iterator.
add_child_at(op, template_name, name, insertion_index) ==
    IF (has_child(name) \/ insertion_index > Len(m_children)) /\ ~ndebug
    THEN Abort(Call(op, template_name, name, "aborted"))
    ELSE IF insertion_index > Len(m_children)
    THEN /\ node_alive' = FALSE
         /\ node_result' = Call(op, template_name, name, "undefined")
         /\ history' = Append(history, node_result')
         /\ m_children' \in {m_children, Append(m_children, name)}
         /\ UNCHANGED <<m_templates, m_template_insertion_indexes>>
    ELSE /\ m_template_insertion_indexes' =
                [i \in 1 .. Len(m_template_insertion_indexes) |->
                    IF m_template_insertion_indexes[i] >= insertion_index
                    THEN m_template_insertion_indexes[i] + 1
                    ELSE m_template_insertion_indexes[i]]
         /\ m_children' = InsertAt(m_children, insertion_index, name)
         /\ node_result' = Call(op, template_name, name, "ok")
         /\ history' = Append(history, node_result')
         /\ UNCHANGED <<m_templates, node_alive>>

\* get_name() through a moved-from shared_ptr: the process dies on the
\* null pointer, or reads a name that matches nothing and goes on
NullDereferenced(call) ==
    /\ node_alive' = FALSE
    /\ node_result' = call
    /\ history' = Append(history, call)
    /\ UNCHANGED <<m_children, m_templates, m_template_insertion_indexes>>

\* Node::construct_child
construct_child(name) ==
    /\ node_alive
    /\ Len(history) < MaxCalls
    /\ add_child("construct_child", "", name)
    /\ UNCHANGED <<engine_vars, dvars, ndebug>>

\* Node::construct_template / add_template: the insertion index of the
\* template is the number of children there are now
construct_template(template_name) ==
    /\ node_alive
    /\ Len(history) < MaxCalls
    /\ m_template_insertion_indexes' =
            Append(m_template_insertion_indexes, Len(m_children))
    /\ m_templates' = Append(m_templates, template_name)
    /\ node_result' = Call("construct_template", template_name, "", "ok")
    /\ history' = Append(history, node_result')
    /\ UNCHANGED <<m_children, node_alive, engine_vars, dvars, ndebug>>

\* the body of Node::try_make_template
make_template(op, template_name, new_name) ==
    IF try_get_template(template_name) = 0
    THEN Unchanged(Call(op, template_name, new_name, "invalid_argument"))
    ELSE add_child_at(op, template_name, new_name,
                      compute_child_insertion_index(template_name))

\* Node::try_make_template
try_make_template(template_name, new_name) ==
    /\ node_alive
    /\ Len(history) < MaxCalls
    /\ make_template("try_make_template", template_name, new_name)
    /\ UNCHANGED <<engine_vars, dvars, ndebug>>

\* Node::try_get_child_or_make_template
try_get_child_or_make_template(template_name, new_name) ==
    /\ node_alive
    /\ Len(history) < MaxCalls
    /\ \/ /\ reads_null(new_name)
          /\ NullDereferenced(Call("try_get_child_or_make_template",
                                   template_name, new_name, "undefined"))
       \/ IF has_child(new_name)
          THEN Unchanged(Call("try_get_child_or_make_template",
                              template_name, new_name, "found"))
          ELSE make_template("try_get_child_or_make_template",
                             template_name, new_name)
    /\ UNCHANGED <<engine_vars, dvars, ndebug>>

\* what std::remove_if leaves behind the kept children: a child that was
\* moved forward is a moved-from pointer, a removed one is still there
RemovedTail(kept, with_name) ==
    [i \in 1 .. Len(m_children) - Len(kept) |->
        IF m_children[Len(kept) + i] = with_name THEN with_name ELSE Null]

\* Node::remove_child: remove_if, remove_index = end - remove_pos, the
\* insertion indexes at or above remove_index shrink by one, then erase of
\* the one element at remove_pos
remove_child(with_name) ==
    /\ node_alive
    /\ Len(history) < MaxCalls
    /\ \/ /\ has_child(Null)
          /\ NullDereferenced(Call("remove_child", "", with_name, "undefined"))
       \/ IF ~has_child(with_name)
          THEN Unchanged(Call("remove_child", "", with_name, "absent"))
          ELSE LET kept == SelectSeq(m_children, LAMBDA n : n # with_name)
                   remove_index == Len(m_children) - Len(kept)
               IN  /\ m_template_insertion_indexes' =
                          [i \in 1 .. Len(m_template_insertion_indexes) |->
                              IF m_template_insertion_indexes[i] >= remove_index
                              THEN m_template_insertion_indexes[i] - 1
                              ELSE m_template_insertion_indexes[i]]
                   /\ m_children' = kept \o Tail(RemovedTail(kept, with_name))
                   /\ node_result' = Call("remove_child", "", with_name, "ok")
                   /\ history' = Append(history, node_result')
                   /\ UNCHANGED <<m_templates, node_alive>>
    /\ UNCHANGED <<engine_vars, dvars, ndebug>>

\* one thread that calls the node
NextNode ==
    \/ \E name \in ChildNames : construct_child(name)
    \/ \E template_name \in TemplateNames : construct_template(template_name)
    \/ \E template_name \in TemplateNames, new_name \in ChildNames :
          try_make_template(template_name, new_name)
    \/ \E template_name \in TemplateNames, new_name \in ChildNames :
          try_get_child_or_make_template(template_name, new_name)
    \/ \E with_name \in ChildNames : remove_child(with_name)

SpecNode == InitNodes /\ [][NextNode]_vars

(* --------------------------- adding two bounds ------------------------- *)
\* the largest coordinate of the bounds that are added
MaxCoord == 1

\* the points and the bounds the two operands are drawn from
BoundsPoints ==
    { <<x, y, z>> : x \in -MaxCoord .. MaxCoord, y \in 0 .. MaxCoord, z \in 0 .. MaxCoord }
BoundsOperands == { Bounds(base, end) : base \in BoundsPoints, end \in BoundsPoints }

\* two bounds, not yet added
InitBounds ==
    /\ InitEngine
    /\ InitNoDiff
    /\ InitNode
    /\ ndebug = FALSE
    /\ InitNoExtra
    /\ bounds_a \in BoundsOperands
    /\ bounds_b \in BoundsOperands
    /\ bounds_sums = NoSums
    /\ InitNoSort
    /\ InitNoValue
    /\ InitNoTree

\* Bounds::operator+: a copy of the left operand, += the right operand
BoundsPlus(a, b) == BoundsAdd(a, b)

\* a + b
AddAB ==
    /\ "ab" \notin DOMAIN bounds_sums
    /\ bounds_sums' = [k \in DOMAIN bounds_sums \cup {"ab"} |->
                         IF k = "ab" THEN BoundsPlus(bounds_a, bounds_b)
                         ELSE bounds_sums[k]]
    /\ UNCHANGED <<engine_vars, cvars, nvars, xvars, bounds_a, bounds_b, svars, rvars, hvars>>

\* b + a
AddBA ==
    /\ "ba" \notin DOMAIN bounds_sums
    /\ bounds_sums' = [k \in DOMAIN bounds_sums \cup {"ba"} |->
                         IF k = "ba" THEN BoundsPlus(bounds_b, bounds_a)
                         ELSE bounds_sums[k]]
    /\ UNCHANGED <<engine_vars, cvars, nvars, xvars, bounds_a, bounds_b, svars, rvars, hvars>>

NextBounds ==
    \/ AddAB
    \/ AddBA

SpecBounds == InitBounds /\ [][NextBounds]_vars

(* ------------------------ ordering the attributes ---------------------- *)
\* the dependencies of some of the size attributes, not yet sorted
DependencySets ==
    UNION { [D -> RelativeNames \cup {nullopt}] : D \in SUBSET {"depth", "height", "width"} }

InitSort ==
    /\ InitEngine
    /\ InitNoDiff
    /\ InitNode
    /\ ndebug = FALSE
    /\ InitNoExtra
    /\ InitNoBounds
    /\ InitNoValue
    /\ InitNoTree
    /\ dependencies \in DependencySets
    /\ ordered_names = NotCalled

\* the call made by SizeFeature::compute_and_update_ancestor_values
SortCall ==
    /\ ~ordered_names.called
    /\ ordered_names' = topological_sort_with_aliases(dependencies, SizeAliases)
    /\ UNCHANGED <<engine_vars, cvars, nvars, xvars, bvars, dependencies, rvars, hvars>>

NextSort == SortCall

SpecSort == InitSort /\ [][NextSort]_vars

(* ----------------------- evaluating a relative value ------------------- *)
\* attribute values m_width is updated from, and evaluations of one value
MaxUpdates == 2
MaxEvaluations == 2

\* the attribute values m_width is updated from
AttributeValues ==
    { <<>>, <<Percent>>, <<Number(8)>>, <<Number(50), Percent>>,
      <<Name("height")>>, <<Number(2), Name("h")>>, <<Name("width"), Percent>>,
      <<Number(50), Name("height"), Percent>> }

\* the values an element may find: width and height of an ancestor, each
\* absent, of another type, or a float
KnownEntries(abbreviation) ==
    { OtherEntry(abbreviation), FloatEntry(abbreviation, Float(4)),
      FloatEntry(abbreviation, Float(10)) }
KnownValues ==
    { NoValues } \cup
    { update_impl(NoValues, "width", e) : e \in KnownEntries("w") } \cup
    { update_impl(NoValues, "height", e) : e \in KnownEntries("h") } \cup
    { update_impl(update_impl(NoValues, "width", e), "height", f) :
          e \in KnownEntries("w"), f \in KnownEntries("h") }

InitValue ==
    /\ InitEngine
    /\ InitNoDiff
    /\ InitNode
    /\ ndebug = FALSE
    /\ InitNoExtra
    /\ InitNoBounds
    /\ InitNoSort
    /\ InitNoTree
    /\ m_width = RelativeFloatValue("width", "w", default_width, TRUE)
    /\ attribute_values = <<>>
    /\ known_values \in KnownValues
    /\ ancestor_values = NoValues
    /\ evaluations = <<>>

\* SizeFeature::update_from_attributes: m_width.update_from_attribute_value
UpdateFromAttributeValue(attribute_value) ==
    /\ evaluations = <<>>
    /\ Len(attribute_values) < MaxUpdates
    /\ m_width' = update_from_attribute_value(m_width, attribute_value)
    /\ attribute_values' = Append(attribute_values, attribute_value)
    /\ UNCHANGED <<engine_vars, cvars, nvars, xvars, bvars, svars, known_values,
                   ancestor_values, evaluations, hvars>>

\* RelativeFloatTypeValue::update_ancestor_values on a copy of the values
\* the render hands down: the computed value is written to m_value and,
\* unless the value is defaulted, to the copy
UpdateAncestorValues ==
    /\ Len(evaluations) < MaxEvaluations
    /\ LET computed_value == compute_relative_value(m_width, known_values)
       IN  /\ evaluations' = Append(evaluations, computed_value)
           /\ IF computed_value.threw
              THEN /\ ancestor_values' = known_values
                   /\ UNCHANGED m_width
              ELSE /\ m_width' = [m_width EXCEPT !.m_value = computed_value.val]
                   /\ ancestor_values' =
                          IF m_width.m_defaulted THEN known_values
                          ELSE update_impl(known_values, m_width.name,
                                      FloatEntry(m_width.abbreviation,
                                                 computed_value.val))
    /\ UNCHANGED <<engine_vars, cvars, nvars, xvars, bvars, svars, known_values,
                   attribute_values, hvars>>

NextValue ==
    \/ \E attribute_value \in AttributeValues : UpdateFromAttributeValue(attribute_value)
    \/ UpdateAncestorValues

SpecValue == InitValue /\ [][NextValue]_vars

(* ----------------------------- a tree of nodes ------------------------ *)
\* Node objects of one tree, and parts of a path that is looked up
MaxNodes == 5
MaxParts == 2
MaxWidth == 3
MaxHeight == 2

TreeNames == {"a", "b"}
TreeTemplateNames == {"t"}

\* the children or templates of a node that carry a name
Named(heap, nodes, name) == SelectSeq(nodes, LAMBDA c : heap[c].name = name)

\* Node(const Node& other): the parent of other, no children, no templates
CopyOf(other) == NewNode(other.m_parent, other.name)

\* a set_parent that leaves m_parent as the copy constructor set it
set_parent_Skipped(node, new_parent) == node

\* Node::set_name and Node::set_parent
set_name(node, new_name) == [node EXCEPT !.name = new_name]
set_parent(node, new_parent) == [node EXCEPT !.m_parent = new_parent]

\* Node::add_child(node, {}), Node::add_child(node, insertion_index) and
\* Node::add_template on the node n of the heap
heap_add_child(heap, n, node) == [heap EXCEPT ![n].m_children = Append(@, node)]
heap_add_child_at(heap, n, node, insertion_index) ==
    [heap EXCEPT ![n].m_children = InsertAt(@, insertion_index, node),
                 ![n].m_template_insertion_indexes =
                     [i \in 1 .. Len(@) |-> IF @[i] >= insertion_index THEN @[i] + 1
                                            ELSE @[i]]]
heap_add_template(heap, n, node) ==
    [heap EXCEPT ![n].m_templates = Append(@, node),
                 ![n].m_template_insertion_indexes =
                     Append(@, Len(heap[n].m_children))]

\* Node::clone_into_parent and Node::copy_children_from_node: the copy is
\* the newest node of the heap
RECURSIVE clone_into_parent(_, _, _, _)
RECURSIVE copy_children(_, _, _)
RECURSIVE copy_templates(_, _, _)
clone_into_parent(heap, this, new_name, new_parent) ==
    LET new_node == Len(heap) + 1
        copied == Append(heap, set_parent(set_name(CopyOf(heap[this]), new_name),
                                          new_parent))
        with_children == copy_children(copied, new_node, heap[this].m_children)
        with_templates == copy_templates(with_children, new_node, heap[this].m_templates)
    IN  [with_templates EXCEPT ![new_node].m_template_insertion_indexes =
                                   heap[this].m_template_insertion_indexes]
copy_children(heap, into, children) ==
    IF children = <<>> THEN heap
    ELSE LET child_node == Head(children)
             cloned == clone_into_parent(heap, child_node, heap[child_node].name, into)
         IN  copy_children(heap_add_child(cloned, into, Len(heap) + 1), into,
                           Tail(children))
copy_templates(heap, into, templates) ==
    IF templates = <<>> THEN heap
    ELSE LET template_node == Head(templates)
             cloned == clone_into_parent(heap, template_node,
                                         heap[template_node].name, into)
         IN  copy_templates(heap_add_template(cloned, into, Len(heap) + 1), into,
                            Tail(templates))

\* the nodes a clone of this node adds to the heap
RECURSIVE SubtreeSize(_, _)
RECURSIVE SubtreesSize(_, _)
SubtreeSize(heap, this) ==
    1 + SubtreesSize(heap, heap[this].m_children \o heap[this].m_templates)
SubtreesSize(heap, nodes) ==
    IF nodes = <<>> THEN 0
    ELSE SubtreeSize(heap, Head(nodes)) + SubtreesSize(heap, Tail(nodes))

\* Node::path: the names from below the root down to this node
RECURSIVE node_path(_, _)
node_path(heap, this) ==
    IF heap[this].m_parent = NullNode THEN <<>>
    ELSE Append(node_path(heap, heap[this].m_parent), heap[this].name)

\* Node::find_descendant; Path::first of a path without parts is ""
RECURSIVE find_descendant(_, _, _)
find_descendant(heap, this, parts) ==
    LET first == IF parts = <<>> THEN "" ELSE Head(parts)
        is_leaf == Len(parts) <= 1
        matching == Named(heap, heap[this].m_children, first)
    IN  IF matching # <<>>
        THEN IF is_leaf THEN Head(matching)
             ELSE find_descendant(heap, Head(matching), Tail(parts))
        ELSE IF is_leaf /\ heap[this].name = first THEN this
        ELSE NullNode

\* the paths that are looked up
RECURSIVE PathsOf(_)
PathsOf(n) ==
    IF n = 0 THEN {<<>>}
    ELSE {<<>>} \cup { <<name>> \o rest : name \in TreeNames, rest \in PathsOf(n - 1) }
LookupPaths == PathsOf(MaxParts) \ {<<>>}

\* Node::construct_child on the node this, with a name none of its
\* children has
TreeConstructChild(this, name) ==
    /\ ~looked_up.called
    /\ this \in 1 .. Len(node_heap)
    /\ Len(node_heap) < MaxNodes
    /\ Named(node_heap, node_heap[this].m_children, name) = <<>>
    /\ node_heap' = heap_add_child(Append(node_heap, NewNode(this, name)), this,
                                   Len(node_heap) + 1)
    /\ UNCHANGED <<engine_vars, cvars, nvars, xvars, bvars, svars, rvars, looked_up>>

\* Node::construct_template on the node this
TreeConstructTemplate(this, template_name) ==
    /\ ~looked_up.called
    /\ this \in 1 .. Len(node_heap)
    /\ Len(node_heap) < MaxNodes
    /\ Named(node_heap, node_heap[this].m_templates, template_name) = <<>>
    /\ node_heap' = heap_add_template(Append(node_heap, NewNode(this, template_name)),
                                      this, Len(node_heap) + 1)
    /\ UNCHANGED <<engine_vars, cvars, nvars, xvars, bvars, svars, rvars, looked_up>>

\* Node::try_make_template on the node this, for a template it has and a
\* name none of its children has
TreeMakeTemplate(this, template_name, new_name) ==
    /\ ~looked_up.called
    /\ this \in 1 .. Len(node_heap)
    /\ Named(node_heap, node_heap[this].m_templates, template_name) # <<>>
    /\ Named(node_heap, node_heap[this].m_children, new_name) = <<>>
    /\ LET templates == node_heap[this].m_templates
           place == CHOOSE i \in 1 .. Len(templates) :
                        /\ node_heap[templates[i]].name = template_name
                        /\ \A j \in 1 .. i - 1 :
                              node_heap[templates[j]].name # template_name
           insertion_index == node_heap[this].m_template_insertion_indexes[place]
       IN  /\ Len(node_heap) + SubtreeSize(node_heap, templates[place]) <= MaxNodes
           /\ node_heap' =
                  heap_add_child_at(
                      clone_into_parent(node_heap, templates[place], new_name, this),
                      this, Len(node_heap) + 1, insertion_index)
    /\ UNCHANGED <<engine_vars, cvars, nvars, xvars, bvars, svars, rvars, looked_up>>

\* Node::find_descendant called on the node this
FindDescendant(this, parts) ==
    /\ ~looked_up.called
    /\ this \in 1 .. Len(node_heap)
    /\ looked_up' = [receiver |-> this, path |-> parts, called |-> TRUE,
                 node |-> find_descendant(node_heap, this, parts)]
    /\ UNCHANGED <<engine_vars, cvars, nvars, xvars, bvars, svars, rvars, node_heap>>

InitTree ==
    /\ InitEngine
    /\ InitNoDiff
    /\ InitNode
    /\ ndebug = FALSE
    /\ InitNoExtra
    /\ InitNoBounds
    /\ InitNoSort
    /\ InitNoValue
    /\ InitNoTree

NextTree ==
    \E this \in 1 .. MaxNodes :
        \/ \E name \in TreeNames : TreeConstructChild(this, name)
        \/ \E template_name \in TreeTemplateNames :
              TreeConstructTemplate(this, template_name)
        \/ \E template_name \in TreeTemplateNames, new_name \in TreeNames :
              TreeMakeTemplate(this, template_name, new_name)
        \/ \E parts \in LookupPaths : FindDescendant(this, parts)

SpecTree == InitTree /\ [][NextTree]_vars

(* ------------------------------ fairness ------------------------------- *)
\* the steps that continue a call a consumer thread is in
ConsumerInternal(c) ==
    \/ LockEvents(c)
    \/ Return(c)
    \/ \E f \in Filters : RequestBody(c, f)
    \/ ReleaseBody(c)
    \/ PollBody(c)
    \/ ListenBody(c)
    \/ TryListenBody(c)
    \/ TryListenPop(c)

\* the steps that continue a render a producer thread is in
ProducerInternal(p) ==
    \/ LockEvents(p)
    \/ Return(p)
    \/ AddEvent(p)
    \/ NotifyAll(p)

\* the runs in which the engine hands out at most MaxFairTokens listeners
NextFair ==
    \/ ProducerSteps({"p1"}, Scenes, MaxEvents)
    \/ ConsumerSteps(Consumers, MaxFairTokens)
    \/ DropEngine

\* A thread that can continue its call is scheduled in the end, and the
\* timeout of a timed wait expires.  Nothing obliges a thread to start a
\* new call, the owner to drop the engine, or a waiter to wake spuriously.
SpecFair ==
    /\ Init
    /\ [][NextFair]_vars
    /\ \A c \in Consumers : WF_vars(ConsumerInternal(c)) /\ WF_vars(Timeout(c))
    /\ WF_vars(ProducerInternal("p1"))

(* ======================= properties of the model ======================= *)
\* the positions of a producer inside render's event loop
Emitting == {"emit_lock", "emit_cs", "emit_notify"}

\* C1: at any time at most one producer thread holds an open transaction;
\* while it does, no other producer renders or appends diff events.
C1_ExclusiveTransaction ==
    \A p \in Producers : \A q \in Producers \ {p} :
        handles[p] # <<>> => (handles[q] = <<>> /\ pc[q] \notin Emitting)

\* a producer is appending an event inside its transaction after another
\* render has already completed
C1_Witness ==
    \E p \in Producers :
        /\ handles[p] # <<>>
        /\ pc[p] = "emit_cs"
        /\ m_exclusive_transaction_mutex.owner = p
        /\ completed # <<>>

IsPrefix(a, b) == Len(a) <= Len(b) /\ SubSeq(b, 1, Len(a)) = a

\* C2: for any listener the log indices of the events its successive pops
\* returned are strictly increasing, so no log entry is returned twice.
C2_EventMonotonicity ==
    \A t \in Tokens : \A i, j \in 1 .. Len(received[t]) :
        i < j => received[t][i].idx < received[t][j].idx

\* a listener has been handed three events
C2_Witness ==
    \E t \in Tokens : Len(received[t]) = 3

\* C4: the events of one render are contiguous in the log, and the blocks
\* are in the order in which the renders completed.
C4_BlocksInCompletionOrder ==
    /\ \A i, j, k \in 1 .. Len(appendedBy) :
          (i < k /\ k < j /\ appendedBy[i] = appendedBy[j])
              => appendedBy[k] = appendedBy[i]
    /\ \A a, b \in 1 .. Len(completed) : \A i, j \in 1 .. Len(appendedBy) :
          (a < b /\ appendedBy[i] = completed[a] /\ appendedBy[j] = completed[b])
              => i < j

\* two renders have completed, the second with a block of two events
C4_Witness ==
    /\ Len(completed) = 2
    /\ appendedBy = <<completed[1], completed[2], completed[2]>>

\* C5: a listener starts at cursor 0 whenever it registers, and two
\* listeners with the same filter are handed the same log entries in the
\* same order: the shorter history is a prefix of the longer.
C5_SameFilterSameEvents ==
    /\ \A t \in DOMAIN m_listener_pos :
          received[t] = <<>> => m_listener_pos[t].index = 0
    /\ \A t, u \in DOMAIN m_listener_pos :
          m_listener_pos[t].filter = m_listener_pos[u].filter
              => (IsPrefix(received[t], received[u])
                  \/ IsPrefix(received[u], received[t]))

\* a listener registered with events in the log has been handed the same
\* three events as one registered before them
C5_Witness ==
    \E t, u \in DOMAIN m_listener_pos :
        /\ registeredAt[t] = "early"
        /\ registeredAt[u] = "late"
        /\ m_listener_pos[t].filter = m_listener_pos[u].filter
        /\ Len(received[t]) = 3
        /\ received[u] = received[t]

\* the log indices below the cursor that the filter lets through
RECURSIVE Passing(_, _)
Passing(filter, upto) ==
    IF upto = 0 THEN <<>>
    ELSE Passing(filter, upto - 1)
           \o (IF filter = "ReceiveAll" \/ should_draw(m_events[upto].geometry)
               THEN <<upto>> ELSE <<>>)

\* C6: what a listener has been handed is exactly the log entries below
\* its cursor that its filter lets through, in log order: every entry for
\* ReceiveAll, the entries with should_draw for SkipNonDrawable.
C6_FilteredSubsequence ==
    \A t \in DOMAIN m_listener_pos :
        /\ m_listener_pos[t].index <= Len(m_events)
        /\ Len(received[t]) = Len(Passing(m_listener_pos[t].filter, m_listener_pos[t].index))
        /\ \A i \in 1 .. Len(received[t]) :
              /\ received[t][i].idx
                    = Passing(m_listener_pos[t].filter, m_listener_pos[t].index)[i]
              /\ received[t][i].ev = m_events[received[t][i].idx]

\* a SkipNonDrawable listener has skipped a non-drawable entry and got the
\* drawable one after it, and a ReceiveAll listener has got all three
C6_Witness ==
    \E t, u \in DOMAIN m_listener_pos :
        /\ m_listener_pos[t].filter = "SkipNonDrawable"
        /\ received[t] # <<>>
        /\ received[t][1].idx > 1
        /\ m_listener_pos[u].filter = "ReceiveAll"
        /\ Len(received[u]) = 3

TimedWaiting == {"twait_lock", "twait_cs", "twait_blocked", "twait_pop"}

\* C8: try_listen_for returns none only when no event passing the
\* listener's filter is available, and then no step of the call has moved
\* the cursor or touched the log; otherwise it returns the event try_pop
\* would return, moving the cursor just past it.
C8_TimedWait ==
    [][\A c \in Consumers :
         (pc[c] \in TimedWaiting /\ pc'[c] # pc[c]) =>
            /\ m_events' = m_events
            /\ IF pc'[c] # "ret" THEN m_listener_pos' = m_listener_pos
               ELSE IF last'[c].idx = 0
               THEN /\ ~event_available(cur[c])
                    /\ m_listener_pos' = m_listener_pos
                    /\ last'[c] = Result("try_listen_for", FALSE, 0)
               ELSE /\ event_available(cur[c])
                    /\ last'[c].idx = PopIndex(cur[c]) + 1
                    /\ m_listener_pos' = pop_event(cur[c])
      ]_vars

\* a timed wait of a SkipNonDrawable listener has returned none although
\* the log holds an entry (one its filter skips); its cursor is still 0
C8_Witness ==
    \E c \in Consumers :
        /\ pc[c] = "ret"
        /\ last[c] = Result("try_listen_for", FALSE, 0)
        /\ m_events # <<>>
        /\ m_listener_pos[cur[c]] = [filter |-> "SkipNonDrawable", index |-> 0]

\* C10: once the event server is gone it stays gone, and every poll,
\* listen or try_listen_for started after that returns the server-gone
\* result at once, without an event.
C10_ServerGoneIsFinal ==
    [][/\ ~ServerAlive => ~ServerAlive'
       /\ \A c \in Consumers :
            (~ServerAlive /\ pc[c] = "idle" /\ pc'[c] # "idle") =>
               /\ pc'[c] = "ret"
               /\ last'[c].gone
               /\ last'[c].idx = 0
               /\ received' = received
               /\ m_listener_pos' = m_listener_pos
      ]_vars

\* a call has returned server-gone on a listener that had an unread event
C10_Witness ==
    \E c \in Consumers :
        /\ pc[c] = "ret"
        /\ last[c].gone
        /\ ~ServerAlive
        /\ m_listener_pos[cur[c]].filter = "ReceiveAll"
        /\ m_listener_pos[cur[c]].index < Len(m_events)

\* the positions of a thread inside EventListener::listen
Listening == {"listen_lock", "listen_cs", "listen_blocked"}
\* a poll, listen or try_listen_for on listener t is in progress or has
\* just returned
Popping(t) == \E c \in Consumers : cur[c] = t /\ pc[c] \notin {"idle", "rel_lock", "rel_cs"}
\* listener t is registered and log entry i passes its filter
Logged(t, i) ==
    /\ t \in DOMAIN m_listener_pos
    /\ i <= Len(m_events)
    /\ (m_listener_pos[t].filter = "ReceiveAll" \/ should_draw(m_events[i].geometry))
\* log entry i has been returned to listener t
Got(t, i) == \E k \in 1 .. Len(received[t]) : received[t][k].idx = i

\* C3 as stated: a registered listener that keeps popping is eventually
\* handed every logged event that passes its filter.
C3_EveryEventDelivered ==
    \A t \in Tokens : \A i \in 1 .. MaxEvents :
        ([]<>Popping(t)) => (Logged(t, i) ~> Got(t, i))

\* C3 amended: a registered listener that keeps popping is eventually
\* handed every logged event that passes its filter, unless the event
\* server is destroyed first.
C3_DeliveredWhileServerLives ==
    \A t \in Tokens : \A i \in 1 .. MaxEvents :
        ([]<>Popping(t)) => (Logged(t, i) ~> (Got(t, i) \/ ~ServerAlive))

\* the third logged event has been delivered to a registered listener
\* while the event server lives
C3_Witness ==
    \E t \in DOMAIN m_listener_pos :
        /\ Len(m_events) = 3
        /\ Got(t, 3)
        /\ ServerAlive

\* C7: listen returns only with the event try_pop would return, and a
\* listener blocked in listen while an event that passes its filter is in
\* the log is woken and returns.
C7_NoLostWakeup ==
    /\ [][\A c \in Consumers :
            (pc[c] \in Listening /\ pc'[c] = "ret") =>
                /\ event_available(cur[c])
                /\ last'[c] = Result("listen", FALSE, PopIndex(cur[c]) + 1)
         ]_vars
    /\ \A c \in Consumers :
          (pc[c] = "listen_blocked" /\ event_available(cur[c])) ~> (pc[c] = "ret")

\* a listener is blocked in listen and the event it waits for has just been
\* appended: the broadcast has not been issued yet
C7_Witness ==
    \E c \in Consumers :
        /\ pc[c] = "listen_blocked"
        /\ event_available(cur[c])
        /\ pc["p1"] = "emit_notify"

\* C9 as stated: a listener blocked in listen when the engine drops the
\* event server returns instead of staying blocked.
C9_BlockedListenerReturns ==
    \A c \in Consumers :
        (pc[c] = "listen_blocked" /\ ~engineAlive) ~> (pc[c] = "ret")

\* C11: a render that finds the event server dropped returns false and
\* appends no event, yet leaves the newly rendered geometry in the render
\* tree; a render that finds the event server alive returns true.
C11_RenderWithoutServer ==
    [][\A p \in Producers :
         /\ (pc[p] = "idle" /\ pc'[p] # "idle") =>
               /\ m_rendered' = render_from_root(nodeTree)
               /\ ~ServerAlive =>
                     /\ pc'[p] = "ret"
                     /\ last'[p] = Result("render", TRUE, 0)
                     /\ m_events' = m_events
                     /\ pending' = pending
               /\ ServerAlive => ~last'[p].gone
         /\ (pc[p] \in Emitting /\ pc'[p] = "ret") =>
               last'[p].op = "render" /\ ~last'[p].gone
      ]_vars

\* a render has returned false with nothing in the log, and the render
\* tree holds the box it rendered
C11_Witness ==
    \E p \in Producers :
        /\ pc[p] = "ret"
        /\ last[p] = Result("render", TRUE, 0)
        /\ m_events = <<>>
        /\ m_rendered = render_from_root(BoxScene)
        /\ nodeTree = BoxScene

(* ------------------------- events of one render ------------------------ *)
EventTypes == {"Add", "Remove", "Move", "Resize", "Recolor", "Retext"}

\* the event type the documentation gives for each diff tag
TypeOfTag(tag) ==
    CASE tag = "FirstMissing" -> "Remove"
      [] tag = "SecondMissing" -> "Add"
      [] tag = "Pos" -> "Move"
      [] tag = "Bounds" -> "Resize"
      [] tag = "Color" -> "Recolor"
      [] tag = "Text" -> "Retext"

\* the last n events of the log
LastEvents(n) == SubSeq(m_events, Len(m_events) - n + 1, Len(m_events))

\* the tree snapshotted at the begin of p's transaction h
Snapshot(p, h) == handles[p][h].m_old_render_tree

\* the diff tags between the re-rendered node tree and that snapshot
TagsOf(p, h) == differences_from(render_from_root(nodeTree), Snapshot(p, h))

\* event e is the one event owed to diff tag d
Owed(e, d, p, h) ==
    /\ e.path = d.path
    /\ e.type = TypeOfTag(d.difference)
    /\ e.geometry = IF d.difference = "FirstMissing"
                    THEN Snapshot(p, h)[d.path]
                    ELSE render_from_root(nodeTree)[d.path]

\* the events are the ones owed to the diff tags of p's transaction h
AllOwed(events, p, h) ==
    /\ Len(events) = Len(TagsOf(p, h))
    /\ \A i \in 1 .. Len(TagsOf(p, h)) : Owed(events[i], TagsOf(p, h)[i], p, h)

\* p's render has returned: the events it appended, for transaction h
Appended(p, h) == LastEvents(Len(TagsOf(p, h)))

\* p's render has just appended its last event and returned
RenderDone(p) ==
    /\ pc[p] = "ret"
    /\ last[p].op = "render"
    /\ last[p].idx > 0

\* C12: a render queues exactly one event per diff tag between the tree
\* snapshotted at the begin of the transaction and the re-rendered tree,
\* of the type of the tag (FirstMissing: Remove with the old geometry;
\* SecondMissing: Add, Pos: Move, Bounds: Resize, Color: Recolor, Text:
\* Retext with the new geometry); the log grows by these events only, one
\* at a time, and when the render returns the log ends with exactly them.
C12_OneEventPerDiffTag ==
    [][\A p \in Producers :
         /\ m_events' # m_events => \E q \in Producers : pc[q] = "emit_cs"
         /\ (pc[p] = "idle" /\ pc'[p] = "emit_lock") =>
               /\ rendering'[p] \in 1 .. Len(handles[p])
               /\ AllOwed(pending'[p], p, rendering'[p])
               /\ m_events' = m_events
         /\ (pc[p] = "idle" /\ pc'[p] = "ret") => m_events' = m_events
         /\ pending'[p] # pending[p] =>
               \/ pc[p] = "idle" /\ pc'[p] = "emit_lock"
               \/ pc[p] = "emit_notify" /\ pending'[p] = Tail(pending[p])
         /\ (pc[p] = "emit_cs" /\ pc'[p] # "emit_cs") =>
               m_events' = Append(m_events, Head(pending[p]))
         /\ (pc[p] = "emit_notify" /\ pc'[p] = "ret") =>
               /\ Len(m_events) >= Len(TagsOf(p, rendering[p]))
               /\ AllOwed(Appended(p, rendering[p]), p, rendering[p])
      ]_vars

\* a render has returned whose events are of all six types
C12_Witness ==
    \E p \in Producers :
        /\ RenderDone(p)
        /\ \E h \in 1 .. Len(handles[p]) :
              /\ Len(m_events) >= Len(TagsOf(p, h))
              /\ AllOwed(Appended(p, h), p, h)
              /\ {Appended(p, h)[i].type : i \in 1 .. Len(TagsOf(p, h))}
                    = EventTypes

\* ascending path order as documented: shorter paths first, then part-wise
PathBefore(a, b) ==
    \/ Len(a) < Len(b)
    \/ /\ Len(a) = Len(b)
       /\ \E k \in 1 .. Len(a) :
             /\ a[k] < b[k]
             /\ \A m \in 1 .. k - 1 : a[m] = b[m]

\* the place of an event type among the events of one path
FieldRank(type) ==
    CASE type \in {"Add", "Remove"} -> 0
      [] type = "Move" -> 1
      [] type = "Resize" -> 2
      [] type = "Recolor" -> 3
      [] type = "Retext" -> 4

\* a sequence of events in diff-enumeration order
Enumerated(events) ==
    \A i, j \in 1 .. Len(events) :
        i < j =>
            \/ PathBefore(events[i].path, events[j].path)
            \/ /\ events[i].path = events[j].path
               /\ FieldRank(events[i].type) < FieldRank(events[j].type)

\* C13: the events one render queues, and the events it has appended to
\* the log when it returns, are in ascending path order (shorter paths
\* first, then part by part), and the events of one path are in the order
\* Move, Resize, Recolor, Retext.
C13_DiffEnumerationOrder ==
    [][\A p \in Producers :
         /\ (pc[p] = "idle" /\ pc'[p] = "emit_lock") => Enumerated(pending'[p])
         /\ (pc[p] = "emit_notify" /\ pc'[p] = "ret") =>
               /\ Len(m_events) >= Len(TagsOf(p, rendering[p]))
               /\ Enumerated(Appended(p, rendering[p]))
      ]_vars

\* a render has returned that appended a Move, a Resize, a Recolor and a
\* Retext of one path, and events of two sibling paths
C13_Witness ==
    \E p \in Producers :
        /\ RenderDone(p)
        /\ handles[p] # <<>>
        /\ Len(m_events) >= Len(TagsOf(p, 1))
        /\ LET events == Appended(p, 1)
           IN  /\ AllOwed(events, p, 1)
               /\ \E path \in {events[i].path : i \in 1 .. Len(events)} :
                     {events[i].type : i \in {k \in 1 .. Len(events) :
                                                events[k].path = path}}
                       = {"Move", "Resize", "Recolor", "Retext"}
               /\ \E i, j \in 1 .. Len(events) :
                     /\ Len(events[i].path) = Len(events[j].path)
                     /\ events[i].path # events[j].path

\* the path .j.b of the box named b (2) under the juxtapose element
PathJB == <<JName, 2>>

\* the events are exactly one Add per path of tree, carrying its geometry
OneAddPerPath(events, tree) ==
    /\ Len(events) = Cardinality(DOMAIN tree)
    /\ {events[i].path : i \in 1 .. Len(events)} = DOMAIN tree
    /\ \A i \in 1 .. Len(events) :
          /\ events[i].type = "Add"
          /\ events[i].geometry = tree[events[i].path]

\* among the events, the box b of Root -> j -> b has exactly one: an Add
\* with 8 vertexes, 12 triangles, its colour and its bounds, and it is the
\* only event with something to draw
OneAddForTheBox(events) ==
    /\ {events[i].path : i \in 1 .. Len(events)} = {RootPath, <<JName>>, PathJB}
    /\ \E i \in 1 .. Len(events) :
          /\ events[i].path = PathJB
          /\ events[i].type = "Add"
          /\ Len(events[i].geometry.vertexes) = 8
          /\ Len(events[i].geometry.triangles) = 12
          /\ events[i].geometry.color = Coral
          /\ positioned_bounds(events[i].geometry) = Bounds(Origin, <<2, 3, 4>>)
          /\ \A k \in 1 .. Len(events) :
                (events[k].path = PathJB \/ should_draw(events[k].geometry))
                    => k = i

\* C16: a render against an empty snapshot queues, and has appended when
\* it returns, exactly one Add per rendered path and no event of another
\* type; for Root -> juxtapose j -> box b exactly one of them is for .j.b,
\* an Add carrying the 8 vertexes and 12 triangles of the box.
C16_FirstRenderAddsEveryPath ==
    [][\A p \in Producers :
         /\ (pc[p] = "idle" /\ pc'[p] = "emit_lock") =>
               (Snapshot(p, rendering'[p]) = EmptyTree =>
                  /\ OneAddPerPath(pending'[p], render_from_root(nodeTree))
                  /\ nodeTree = SingleScene => OneAddForTheBox(pending'[p]))
         /\ (pc[p] = "idle" /\ pc'[p] = "ret") =>
               \E h \in 1 .. Len(handles[p]) : Snapshot(p, h) # EmptyTree
         /\ (pc[p] = "emit_notify" /\ pc'[p] = "ret") =>
               (Snapshot(p, rendering[p]) = EmptyTree =>
                  /\ Len(m_events') >= Cardinality(DOMAIN m_rendered)
                  /\ OneAddPerPath(LastEvents(Cardinality(DOMAIN m_rendered))',
                                   render_from_root(nodeTree))
                  /\ nodeTree = SingleScene =>
                        OneAddForTheBox(LastEvents(Cardinality(DOMAIN m_rendered))'))
      ]_vars

\* the first render of Root -> j -> b has returned with three events in
\* the log
C16_Witness ==
    \E p \in Producers :
        /\ RenderDone(p)
        /\ handles[p] # <<>>
        /\ Snapshot(p, 1) = EmptyTree
        /\ nodeTree = SingleScene
        /\ Len(m_events) = 3
        /\ OneAddForTheBox(m_events)

\* the sum over the first n boxes of (width + spacing)
RECURSIVE SweptBefore(_, _, _)
SweptBefore(boxes, n, spacing) ==
    IF n = 0 THEN 0
    ELSE SweptBefore(boxes, n - 1, spacing) + boxes[n].w + spacing

\* in tree, the boxes of a juxtapose along x are where the sweep puts them
\* and the juxtapose element is as wide as the sweep without the spacing
\* after the last box
Swept(tree, scene) ==
    /\ \A i \in 1 .. Len(scene.boxes) :
          tree[<<JName, scene.boxes[i].name>>].pos
              = <<SweptBefore(scene.boxes, i - 1, scene.spacing), 0, 0>>
    /\ width(tree[<<JName>>].bounds)
          = SweptBefore(scene.boxes, Len(scene.boxes), scene.spacing)
                - scene.spacing

\* the events for path: their types, and the positions they carry
TypesFor(events, path) ==
    {events[i].type : i \in {k \in 1 .. Len(events) : events[k].path = path}}
PosFor(events, path) ==
    {events[i].geometry.pos :
        i \in {k \in 1 .. Len(events) : events[k].path = path}}

TagSet(diffs) == {<<diffs[i].path, diffs[i].difference>> : i \in 1 .. Len(diffs)}

\* the (path, tag) pairs self.differences_from(prev) owes, field by field
ExpectedTags(self, prev) ==
    LET common == DOMAIN self \cap DOMAIN prev
    IN  {<<path, "SecondMissing">> : path \in DOMAIN self \ DOMAIN prev}
        \cup {<<path, "FirstMissing">> : path \in DOMAIN prev \ DOMAIN self}
        \cup {<<path, "Pos">> : path \in {q \in common : self[q].pos # prev[q].pos}}
        \cup {<<path, "Bounds">> :
                 path \in {q \in common : self[q].bounds # prev[q].bounds}}
        \cup {<<path, "Color">> :
                 path \in {q \in common : self[q].color # prev[q].color}}
        \cup {<<path, "Text">> : path \in {q \in common : self[q].text # prev[q].text}}

\* the paths a list of differences reports with tag
PathsTagged(diffs, tag) ==
    {diffs[i].path : i \in {k \in 1 .. Len(diffs) : diffs[k].difference = tag}}

\* C14: differences_from reports exactly one SecondMissing per path only
\* self has, one FirstMissing per path only prev has, and for a path of
\* both one tag per field among pos, bounds, color, text that differs;
\* nothing is reported twice, nothing else is reported.
C14_DifferencesExact ==
    /\ "forward" \in diffed =>
          /\ TagSet(forward_differences) = ExpectedTags(first_rendered, last_rendered)
          /\ Cardinality(TagSet(forward_differences)) = Len(forward_differences)
    /\ "reverse" \in diffed =>
          /\ TagSet(reverse_differences) = ExpectedTags(last_rendered, first_rendered)
          /\ Cardinality(TagSet(reverse_differences)) = Len(reverse_differences)

\* a comparison has reported a path of each tree alone and all four fields
\* of a common path
C14_Witness ==
    /\ "forward" \in diffed
    /\ PathsTagged(forward_differences, "SecondMissing") # {}
    /\ PathsTagged(forward_differences, "FirstMissing") # {}
    /\ \E path \in DOMAIN first_rendered \cap DOMAIN last_rendered :
          \A tag \in {"Pos", "Bounds", "Color", "Text"} :
              path \in PathsTagged(forward_differences, tag)

\* C15: the paths first.differences_from(last) tags FirstMissing are the
\* paths last.differences_from(first) tags SecondMissing, and the other
\* way round.
C15_MissingIsSymmetric ==
    diffed = {"forward", "reverse"} =>
        /\ PathsTagged(forward_differences, "FirstMissing")
              = PathsTagged(reverse_differences, "SecondMissing")
        /\ PathsTagged(forward_differences, "SecondMissing")
              = PathsTagged(reverse_differences, "FirstMissing")

\* both comparisons are made and each tree has a path the other lacks
C15_Witness ==
    /\ diffed = {"forward", "reverse"}
    /\ PathsTagged(forward_differences, "FirstMissing") # {}
    /\ PathsTagged(reverse_differences, "FirstMissing") # {}
    /\ DOMAIN first_rendered \cap DOMAIN last_rendered # {}

(* ------------------------ children of one node ------------------------- *)
\* C18 as stated: after any sequence of construct_child,
\* construct_template, try_make_template, try_get_child_or_make_template
\* and remove_child calls, the names of the children are pairwise distinct.
C18_ChildNamesDistinct ==
    \A i, j \in 1 .. Len(m_children) :
        i # j => m_children[i] # m_children[j]

\* the call that has just been made on the node
Called == history' # history
TheCall == node_result'

\* the call constructs a child whose name an existing child has
Collides ==
    /\ Called
    /\ \/ TheCall.op = "construct_child"
       \/ /\ TheCall.op = "try_make_template"
          /\ try_get_template(TheCall.template_name) # 0
    /\ has_child(TheCall.name)

\* C19 as stated: constructing a child (by construct_child or by
\* try_make_template) whose name an existing child has fails with
\* DuplicateChildName and leaves the children, the templates and the
\* template insertion indexes as they were.
C19_DuplicateChildNameError ==
    [][Collides =>
          /\ TheCall.outcome = "DuplicateChildName"
          /\ node_alive'
          /\ UNCHANGED <<m_children, m_templates, m_template_insertion_indexes>>
      ]_vars

\* the calls made so far, without what they did
CallsMade == [i \in 1 .. Len(history) |-> [history[i] EXCEPT !.outcome = "ok"]]

\* add template t, construct_child a, construct_child c, make_template(t, b)
TemplateFirst ==
    << Call("construct_template", "t", "", "ok"),
       Call("construct_child", "", "a", "ok"),
       Call("construct_child", "", "c", "ok"),
       Call("try_make_template", "t", "b", "ok") >>

\* construct_child a, add template t, construct_child c, make_template(t, b)
TemplateAfterA ==
    << Call("construct_child", "", "a", "ok"),
       Call("construct_template", "t", "", "ok"),
       Call("construct_child", "", "c", "ok"),
       Call("try_make_template", "t", "b", "ok") >>

\* C20 as stated: adding a template t, then construct_child a, then
\* construct_child c, then make_template(t, b) yields the children a, b, c.
C20_TemplateOrderABC ==
    CallsMade = TemplateFirst => m_children = <<"a", "b", "c">>

\* C20: a template is materialized at the number of children the node had
\* when the template was added.  Adding t, then construct_child a, then
\* construct_child c, then make_template(t, b) yields the children b, a, c;
\* the order a, b, c is what construct_child a, adding t, construct_child
\* c, make_template(t, b) yields.
C20_TemplateOrder ==
    /\ CallsMade = TemplateFirst =>
          /\ m_children = <<"b", "a", "c">>
          /\ m_template_insertion_indexes = <<1>>
    /\ CallsMade = TemplateAfterA =>
          /\ m_children = <<"a", "b", "c">>
          /\ m_template_insertion_indexes = <<2>>

\* the four calls are made and b is the first child
C20_Witness ==
    /\ CallsMade = TemplateFirst
    /\ node_alive
    /\ node_result.outcome = "ok"
    /\ m_children[1] = "b"
    /\ Len(m_children) = 3

(* ----------------------------- bounds union ---------------------------- *)
\* C30: bounds union commutes and has the zero bounds as identity: once both
\* sums are computed a + b equals b + a, and a + zero equals a
C30_UnionCommutesZeroIdentity ==
    /\ DOMAIN bounds_sums = {"ab", "ba"} => bounds_sums["ab"] = bounds_sums["ba"]
    /\ "ab" \in DOMAIN bounds_sums /\ bounds_b = NoBounds => bounds_sums["ab"] = bounds_a

(* ----------------------- removing a child of a node -------------------- *)
\* the children are named apart and none is a moved-from pointer
DistinctChildren ==
    /\ ~has_child(Null)
    /\ \A i, j \in 1 .. Len(m_children) : m_children[i] = m_children[j] => i = j

\* the 0-based position of the child named with_name
PositionOf(with_name) ==
    CHOOSE k \in 0 .. Len(m_children) - 1 : m_children[k + 1] = with_name

\* this step is a remove_child call that returned
Removes == Len(history') = Len(history) + 1 /\ node_result'.op = "remove_child"

\* C22: remove_child(name) removes the named child and, for the removed
\* child's position k, decrements exactly the template insertion indexes
\* greater than k; removing an absent name changes nothing
C22_RemoveChildStep ==
    Removes /\ DistinctChildren =>
        IF has_child(node_result'.name)
        THEN LET k == PositionOf(node_result'.name)
             IN  /\ m_children' = SelectSeq(m_children, LAMBDA n : n # node_result'.name)
                 /\ m_template_insertion_indexes' =
                        [i \in 1 .. Len(m_template_insertion_indexes) |->
                            IF m_template_insertion_indexes[i] > k
                            THEN m_template_insertion_indexes[i] - 1
                            ELSE m_template_insertion_indexes[i]]
        ELSE UNCHANGED <<m_children, m_templates, m_template_insertion_indexes>>
C22_RemoveChildIndexes == [][C22_RemoveChildStep]_vars

(* --------------------- where materialised children go ------------------ *)
\* only construct_child, construct_template and try_make_template were called
OnlyConstructs ==
    \A k \in 1 .. Len(history) :
        history[k].op \in {"construct_child", "construct_template", "try_make_template"}

\* the calls that put a child into the node
Constructed(k) == history[k].op = "construct_child" /\ history[k].outcome = "ok"
Materialised(k) == history[k].op = "try_make_template" /\ history[k].outcome = "ok"

\* the call that added the template the call k materialised
AddedAt(k) ==
    CHOOSE t \in 1 .. Len(history) :
        /\ history[t].op = "construct_template"
        /\ history[t].template_name = history[k].template_name
        /\ \A s \in 1 .. t - 1 :
              ~(history[s].op = "construct_template"
                  /\ history[s].template_name = history[k].template_name)

\* the place in m_children of the child the call k put there
PlaceOf(k) == CHOOSE i \in 1 .. Len(m_children) : m_children[i] = history[k].name

\* C21: after any sequence of construct_child, construct_template and
\* try_make_template calls, a child materialised from a template T stands
\* after every child constructed before T was added and before every child
\* constructed after T was added, and the children materialised from one
\* template stand in the order they were materialised
C21_MaterialisedBetween ==
    OnlyConstructs /\ DistinctChildren =>
        \A k \in 1 .. Len(history) : Materialised(k) =>
            /\ \A c \in 1 .. Len(history) : Constructed(c) =>
                  /\ c < AddedAt(k) => PlaceOf(c) < PlaceOf(k)
                  /\ c > AddedAt(k) => PlaceOf(k) < PlaceOf(c)
            /\ \A j \in 1 .. k - 1 :
                  Materialised(j) /\ history[j].template_name = history[k].template_name
                      => PlaceOf(j) < PlaceOf(k)

\* a child was materialised between a child constructed before its template
\* was added and one constructed after
C21_Witness ==
    /\ OnlyConstructs /\ DistinctChildren
    /\ \E k \in 1 .. Len(history) :
          /\ Materialised(k)
          /\ \E c \in 1 .. AddedAt(k) - 1 : Constructed(c)
          /\ \E c \in AddedAt(k) + 1 .. k - 1 : Constructed(c)

(* ------------------------ the transaction lock ------------------------- *)
\* the thread opens a transaction in this step, or drops one
Opens(p) == Len(handles'[p]) = Len(handles[p]) + 1
Drops(p) == Len(handles'[p]) = Len(handles[p]) - 1

\* the lock is owned by the thread that holds transactions, once for each
HeldPerHandle(mutex, held) ==
    /\ \A p \in Producers : mutex.owner = p <=> held[p] # <<>>
    /\ \A p \in Producers : held[p] # <<>> => mutex.count = Len(held[p])
    /\ mutex.owner = NoThread <=> mutex.count = 0

\* C25: while the engine lives, transaction() acquires the lock and the drop
\* of a handle releases it exactly once; the holder can open a nested
\* transaction without blocking, and another thread acquires the lock only
\* after every handle of the holder has been dropped
C25_LockStep ==
    /\ engineAlive =>
          HeldPerHandle(m_exclusive_transaction_mutex, handles)
    /\ \A p \in Producers :
          /\ handles[p] # <<>> /\ engineAlive =>
                CanLock(m_exclusive_transaction_mutex, p)
          /\ Opens(p) =>
                /\ \A q \in Producers \ {p} : handles[q] = <<>>
                /\ m_exclusive_transaction_mutex'.owner = p
                /\ m_exclusive_transaction_mutex'.count =
                       m_exclusive_transaction_mutex.count + 1
          /\ Drops(p) /\ engineAlive =>
                /\ m_exclusive_transaction_mutex'.count =
                       m_exclusive_transaction_mutex.count - 1
                /\ HeldPerHandle(m_exclusive_transaction_mutex', handles')
C25_ReentrantLock == [][C25_LockStep]_vars

\* a thread holds a transaction nested in another one
C25_Witness ==
    /\ engineAlive
    /\ \E p \in Producers :
          /\ Len(handles[p]) = 2
          /\ m_exclusive_transaction_mutex = [owner |-> p, count |-> 2]

(* ---------------------- the order of the attributes -------------------- *)
\* the name a dependency stands for, and the attribute a name depends on
Resolved(dep) == IF dep \in DOMAIN SizeAliases THEN SizeAliases[dep] ELSE dep
DependsOn(name) ==
    IF name \in DOMAIN dependencies /\ dependencies[name] # nullopt
    THEN Resolved(dependencies[name]) ELSE nullopt

\* following the dependencies from a name leads back to it
OnCycle(name) ==
    \/ DependsOn(name) = name
    \/ DependsOn(DependsOn(name)) = name
    \/ DependsOn(DependsOn(DependsOn(name))) = name
Cyclic == \E name \in DOMAIN dependencies : OnCycle(name)

\* the place of a name in the returned order
PlaceIn(names, name) == CHOOSE i \in 1 .. Len(names) : names[i] = name

\* C27: for an acyclic dependency set topological_sort_with_aliases returns
\* every name of the set exactly once, each after the name its dependency
\* resolves to; for a cyclic set, a name that depends on itself through its
\* abbreviation included, the call fails with the cycle error
C27_TopologicalOrder ==
    ordered_names.called =>
        IF Cyclic
        THEN ordered_names.threw = "runtime_error: Attributes given form a cycle"
        ELSE /\ ordered_names.threw = ""
             /\ Len(ordered_names.names) = Cardinality(DOMAIN dependencies)
             /\ \A name \in DOMAIN dependencies :
                   /\ \E i \in 1 .. Len(ordered_names.names) :
                         ordered_names.names[i] = name
                   /\ DependsOn(name) \in DOMAIN dependencies =>
                         PlaceIn(ordered_names.names, DependsOn(name))
                             < PlaceIn(ordered_names.names, name)

\* the chain width -> h, height -> depth has been put in order
C27_Witness ==
    /\ ordered_names.called
    /\ DOMAIN dependencies = {"depth", "height", "width"}
    /\ dependencies["width"] = "h"
    /\ dependencies["height"] = "depth"
    /\ ordered_names.names = <<"depth", "height", "width">>

(* ------------------------- relative float values ----------------------- *)
\* known[name], a float of the scope found under its name or abbreviation,
\* 0 when the scope has none
Knows(name) ==
    \E n \in DOMAIN known_values :
        known_values[n].float /\ (n = name \/ known_values[n].abbreviation = name)
Known(name) ==
    IF Knows(name)
    THEN known_values[CHOOSE n \in DOMAIN known_values :
                          known_values[n].float
                              /\ (n = name \/ known_values[n].abbreviation = name)].value
    ELSE 0

\* this step evaluates the value
Evaluates == Len(evaluations') = Len(evaluations) + 1
Evaluated == evaluations'[Len(evaluations')].val

\* C28: evaluated against the scope known, a value that is neither relative
\* nor a percentage yields multiplier x stored, a percentage that is not
\* relative takes the multiplier as the percent, a relative value yields
\* known[relative_name] x multiplier, and a percentage is then multiplied by
\* known[own_name] / 100; a width of 50% under an ancestor width of 10 is 5
C28_EvaluationStep ==
    Evaluates /\ ~evaluations'[Len(evaluations')].threw =>
        LET relative == m_width.m_relative_name # nullopt
            base == IF relative
                    THEN (Known(m_width.m_relative_name) * m_width.m_multiplier) \div 100
                    ELSE IF m_width.m_is_percentage THEN m_width.m_multiplier
                    ELSE (m_width.m_multiplier * m_width.m_value) \div 100
        IN  /\ ~m_width.m_is_percentage => Evaluated = base
            /\ m_width.m_is_percentage =>
                  Evaluated * 100 * 100 = base * Known(m_width.name)
            /\ attribute_values = << <<Number(50), Percent>> >>
                   /\ Knows("width") /\ Known("width") = Float(10)
                   => Evaluated = Float(5)
C28_RelativeEvaluation == [][C28_EvaluationStep]_vars

\* a width of 50% has been evaluated under an ancestor width of 10
C28_Witness ==
    /\ attribute_values = << <<Number(50), Percent>> >>
    /\ Knows("width") /\ Known("width") = Float(10)
    /\ Len(evaluations) = 1
    /\ ~evaluations[1].threw

\* C29: with the ancestor values fixed, the second evaluation of a relative
\* value yields what the first one did, whatever the first one wrote back
C29_EvaluationIdempotent ==
    Len(evaluations) >= 2 => evaluations[2] = evaluations[1]

\* a value that is relative and a percentage has been evaluated twice
C29_Witness ==
    /\ Len(evaluations) = 2
    /\ ~evaluations[2].threw
    /\ m_width.m_is_percentage
    /\ m_width.m_relative_name # nullopt
    /\ m_width.m_value # default_width

(* ------------------------- parents and paths --------------------------- *)
\* the node lists the other as a child or as a template
Lists(n, c) ==
    \/ \E i \in 1 .. Len(node_heap[n].m_children) : node_heap[n].m_children[i] = c
    \/ \E i \in 1 .. Len(node_heap[n].m_templates) : node_heap[n].m_templates[i] = c

\* the names on the way from the root down to a node, through the lists
RECURSIVE PositionOfNode(_)
PositionOfNode(c) ==
    IF \E n \in 1 .. Len(node_heap) : Lists(n, c)
    THEN Append(PositionOfNode(CHOOSE n \in 1 .. Len(node_heap) : Lists(n, c)),
                node_heap[c].name)
    ELSE <<>>

\* C23: in every node tree, subtrees cloned from templates included, the
\* parent pointer of a node is null iff the node is the root, the parent
\* pointer of a child is the node that lists it, and the path of a node is
\* the path of its parent plus its name, empty for the root
C23_ParentsAndPaths ==
    \A c \in 1 .. Len(node_heap) :
        /\ node_heap[c].m_parent = NullNode <=> c = 1
        /\ \A n \in 1 .. Len(node_heap) : Lists(n, c) => node_heap[c].m_parent = n
        /\ c # 1 => \E n \in 1 .. Len(node_heap) : Lists(n, c)
        /\ node_path(node_heap, c) = PositionOfNode(c)
        /\ c # 1 => node_path(node_heap, c) =
                        Append(node_path(node_heap, node_heap[c].m_parent),
                               node_heap[c].name)
        /\ c = 1 => node_path(node_heap, c) = <<>>

\* a template with a child of its own has been made into a child
C23_Witness ==
    \E t, made, nested \in 1 .. Len(node_heap) :
        /\ Lists(1, t) /\ Lists(1, made) /\ Lists(made, nested)
        /\ node_heap[t].m_children # <<>>
        /\ t < made /\ node_heap[t].m_children[1] < made
        /\ node_heap[nested].name = node_heap[node_heap[t].m_children[1]].name
        /\ \E i \in 1 .. Len(node_heap[1].m_templates) : node_heap[1].m_templates[i] = t
        /\ node_path(node_heap, nested) = <<node_heap[made].name, node_heap[nested].name>>

(* --------------------------- find_descendant --------------------------- *)
\* the nodes whose path is the path of the receiver followed by the parts
\* that were looked up
NodesAt(receiver, parts) ==
    { n \in 1 .. Len(node_heap) :
        /\ n # receiver
        /\ node_path(node_heap, n) = node_path(node_heap, receiver) \o parts
        /\ \E c \in 1 .. Len(node_heap) :
              /\ node_heap[n].m_parent = c
              /\ \E i \in 1 .. Len(node_heap[c].m_children) :
                    node_heap[c].m_children[i] = n }

\* C24: find_descendant(path) returns the node located exactly at path
\* below the receiver, the receiver itself when path is the single part
\* that is its name, and nothing otherwise; it never returns a node whose
\* position differs from the requested path
C24_FindDescendantExact ==
    looked_up.called =>
        IF NodesAt(looked_up.receiver, looked_up.path) # {}
        THEN looked_up.node \in NodesAt(looked_up.receiver, looked_up.path)
        ELSE IF looked_up.path = <<node_heap[looked_up.receiver].name>>
        THEN looked_up.node = looked_up.receiver
        ELSE looked_up.node = NullNode

(* ----------------------- a render that is aborted ---------------------- *)
\* the node trees whose render meets an attribute cycle, a value no ancestor
\* has, and an ancestor value of another type
FailingScenes == {CycleScene, MissingScene, WrongTypeScene}

\* the paths of the boxes of a node tree that come before its relative box
BoxPath(scene, i) ==
    Append(IF scene.juxtaposed THEN <<JName>> ELSE RootPath, scene.boxes[i].name)
EarlierPaths(scene) ==
    { BoxPath(scene, i) : i \in { j \in 1 .. Len(scene.boxes) :
          \E k \in j + 1 .. Len(scene.boxes) : scene.boxes[k].relative # nullopt } }

\* new is old rendered in part: the boxes before the relative one have their
\* own geometry, every other path has what it had
PartlyRendered(new, old, scene) ==
    /\ DOMAIN new = DOMAIN old \cup EarlierPaths(scene)
    /\ \A q \in DOMAIN old \ EarlierPaths(scene) : new[q] = old[q]
    /\ \A i \in 1 .. Len(scene.boxes) :
          BoxPath(scene, i) \in EarlierPaths(scene) =>
             LET b == scene.boxes[i]
             IN  new[BoxPath(scene, i)] = box_geometry(b.w, b.h, b.d, b.color, b.text)

\* C26: a render that hits an attribute cycle or a missing or wrongly typed
\* ancestor value aborts: the render reports the failure, appends no event
\* and queues none, leaves the render tree partly rendered, and keeps the
\* transaction and its lock, which the drop of the handle still releases
C26_AbortStep ==
    \A p \in Producers :
        /\ (pc[p] = "idle" /\ pc'[p] # "idle" /\ nodeTree \in FailingScenes) =>
              /\ pc'[p] = "ret"
              /\ last'[p].op = "render_threw"
              /\ m_events' = m_events
              /\ pending' = pending
              /\ renderCount' = renderCount
              /\ PartlyRendered(m_rendered', m_rendered, nodeTree)
              /\ handles' = handles
              /\ m_exclusive_transaction_mutex' = m_exclusive_transaction_mutex
        /\ (pc[p] = "idle" /\ pc'[p] # "idle" /\ nodeTree \notin FailingScenes) =>
              last'[p].op # "render_threw"
        /\ (pc[p] = "ret" /\ last[p].op = "render_threw" /\ pc'[p] # "ret") =>
              /\ pc'[p] = "idle"
              /\ handles' = handles
              /\ m_exclusive_transaction_mutex' = m_exclusive_transaction_mutex
              /\ m_events' = m_events
        /\ (Drops(p) /\ engineAlive) =>
              /\ m_exclusive_transaction_mutex.owner = p
              /\ m_exclusive_transaction_mutex.count = Len(handles[p])
              /\ m_exclusive_transaction_mutex' =
                    IF Len(handles[p]) = 1 THEN FreeMutex
                    ELSE [owner |-> p, count |-> Len(handles[p]) - 1]
C26_AbortedRender == [][C26_AbortStep]_vars

\* a render has thrown in a transaction after the render of an earlier
\* transaction went through, and the handle has been dropped: the render
\* tree has the first box and neither the juxtapose nor the root, the log
\* is not empty, and the lock is free
C26_Witness ==
    \E p \in Producers :
        /\ pc[p] = "idle"
        /\ nodeTree = MissingScene
        /\ m_events # <<>>
        /\ DOMAIN m_rendered = {<<JName, 1>>}
        /\ m_rendered[<<JName, 1>>] = box_geometry(4, 1, 1, default_color, "")
        /\ handles[p] = <<>>
        /\ m_exclusive_transaction_mutex = FreeMutex
        /\ engineAlive

(* ------------------------- the log only grows -------------------------- *)
\* every cursor of m_listener_pos is at most the length of the log
CursorsInside ==
    \A t \in DOMAIN m_listener_pos : m_listener_pos[t].index \in 0 .. Len(m_events)

\* C31: the event log is append-only and cursors stay inside it: no step
\* (append, pop, wait, register, release) removes, reorders or modifies a
\* logged event, and in every reachable state every listener's cursor is at
\* most the log length
C31_AppendOnlyLog ==
    /\ [] CursorsInside
    /\ [][IsPrefix(m_events, m_events')]_vars

\* the log has two events, one listener has popped both and another, still
\* registered, has popped none
C31_Witness ==
    /\ Len(m_events) >= 2
    /\ \E t, u \in DOMAIN m_listener_pos :
          /\ m_listener_pos[t].index = Len(m_events)
          /\ Len(received[t]) >= 2
          /\ m_listener_pos[u].index = 0

(* ------------------------- releasing a listener ------------------------ *)
\* every token handed out is below the counter, and release_listener of a
\* token that is not registered changes nothing
TokensBelowCounter ==
    /\ \A t \in DOMAIN m_listener_pos : t < m_token_counter
    /\ \A t \in 0 .. MaxTokens :
          t \notin DOMAIN m_listener_pos => release_listener(t) = m_listener_pos

\* the cursors of old that are not in dropped are the same in new
SameCursors(new, old, dropped) ==
    \A u \in DOMAIN old \ dropped : u \in DOMAIN new /\ new[u] = old[u]

C32_ReleaseStep ==
    /\ m_token_counter' >= m_token_counter
    /\ \A c \in Consumers :
          (pc[c] = "rel_cs" /\ pc'[c] # "rel_cs") =>
              /\ DOMAIN m_listener_pos' = DOMAIN m_listener_pos \ {cur[c]}
              /\ SameCursors(m_listener_pos', m_listener_pos, {cur[c]})
              /\ m_events' = m_events
              /\ m_token_counter' = m_token_counter
    /\ DOMAIN m_listener_pos \subseteq DOMAIN m_listener_pos'
          \/ \E c \in Consumers : pc[c] = "rel_cs" /\ pc'[c] # "rel_cs"
    /\ \A t \in DOMAIN m_listener_pos' \ DOMAIN m_listener_pos :
          /\ t = m_token_counter
          /\ m_token_counter' = t + 1
          /\ m_listener_pos'[t].index = 0
          /\ DOMAIN m_listener_pos' = DOMAIN m_listener_pos \cup {t}
          /\ SameCursors(m_listener_pos', m_listener_pos, {})
          /\ m_events' = m_events

\* C32: release(token), and the destruction of a listener while the server
\* is alive, drops exactly that listener's cursor: the log and every other
\* cursor are unchanged, releasing an unknown token is a no-op, and tokens
\* are never reused: a listener registered later starts at cursor 0 with
\* the token the counter has reached
C32_ReleaseDropsOneCursor ==
    /\ [] TokensBelowCounter
    /\ [][C32_ReleaseStep]_vars

\* the first listener has been released after it popped an event, the other
\* listener has kept its cursor, and no token is left to hand out
C32_Witness ==
    /\ m_token_counter = 2
    /\ DOMAIN m_listener_pos = {1}
    /\ m_listener_pos[1].index = 1
    /\ Len(m_events) >= 2
    /\ \A c \in Consumers : pc[c] = "idle"

(* --------------------- the scope of ancestor values -------------------- *)
\* the nodes of a tree, the root first; m_children are places in the
\* sequence; the element of each node has one value, its width
ScopedNode(parent, children, value) ==
    [m_parent |-> parent, m_children |-> children, m_element |-> value]
\* an element whose width is left at its default, and one given a width
DefaultedWidth == RelativeFloatValue("width", "w", default_width, TRUE)
GivenWidth(n) == RelativeFloatValue("width", "w", Float(n), FALSE)
ElementWidths == {DefaultedWidth} \cup { GivenWidth(n) : n \in 2 .. MaxWidth }

\* root -> 2 -> (3 -> 5, 4) and root -> (2 -> 4, 3 -> 5); the root has a
\* NopElement, which publishes nothing
ScopedShapes ==
    { <<<<2>>, <<3, 4>>, <<5>>, <<>>, <<>>>>,
      <<<<2, 3>>, <<4>>, <<5>>, <<>>, <<>>>> }
ParentIn(shape, this) ==
    IF \E q \in 1 .. Len(shape) : \E k \in 1 .. Len(shape[q]) : shape[q][k] = this
    THEN CHOOSE q \in 1 .. Len(shape) : \E k \in 1 .. Len(shape[q]) : shape[q][k] = this
    ELSE NullNode
ScopedTrees ==
    { [this \in 1 .. Len(shape) |->
          ScopedNode(ParentIn(shape, this), shape[this],
                     IF this = 1 THEN DefaultedWidth ELSE widths[this])] :
      shape \in ScopedShapes, widths \in [2 .. 5 -> ElementWidths] }

\* Node::update_hierarchical_ancestor_values
update_hierarchical_ancestor_values(heap, this, values) ==
    LET num_children == IF heap[this].m_parent = NullNode THEN 0
                        ELSE Len(heap[heap[this].m_parent].m_children)
    IN  update_impl(update_impl(values, "children",
                                FloatEntry("n", Float(num_children))),
                    "equal",
                    FloatEntry("eq", IF num_children > 0
                                     THEN FloatDiv(Float(100), Float(num_children))
                                     ELSE 0))

\* FloatValue::update_ancestor_values
FloatValue_update_ancestor_values(value, values) ==
    IF ~value.m_defaulted
    THEN update_impl(values, value.name, FloatEntry(value.abbreviation, value.m_value))
    ELSE values

\* a child rendered with the AncestorValues of its parent itself
after_child_ByReference(scope_values, new_ancestor_values) == new_ancestor_values

\* AncestorValues new_ancestor_values = ancestor_values: the child is handed
\* a copy, and what it did to the copy is dropped with it
after_child(scope_values, new_ancestor_values) == scope_values

\* Node::render: what its AncestorValues is as the node gets it (before), after
\* the node and its element have updated it (own), and after the loop over
\* the children (after), for the node and every descendant
RECURSIVE Node_render(_, _, _, _)
RECURSIVE render_children(_, _, _, _)
Node_render(heap, this, scope_values, record) ==
    LET with_own == FloatValue_update_ancestor_values(
                        heap[this].m_element,
                        update_hierarchical_ancestor_values(heap, this, scope_values))
        rendered == render_children(heap, heap[this].m_children, with_own, record)
    IN  [scope_values |-> rendered.scope_values,
         record |-> [rendered.record EXCEPT ![this] =
                        [before |-> scope_values, own |-> with_own,
                         after |-> rendered.scope_values]]]
render_children(heap, children, scope_values, record) ==
    IF children = <<>> THEN [scope_values |-> scope_values, record |-> record]
    ELSE LET child_node == Node_render(heap, Head(children), scope_values, record)
         IN  render_children(heap, Tail(children),
                             after_child(scope_values, child_node.scope_values),
                             child_node.record)

InitScope ==
    /\ InitEngine
    /\ InitNoDiff
    /\ InitNode
    /\ ndebug = FALSE
    /\ InitNoBounds
    /\ InitNoSort
    /\ InitNoValue
    /\ InitNoTree
    /\ InitNoDrawn
    /\ InitNoMove
    /\ InitNoPadding
    /\ InitNoAlign
    /\ scoped_nodes \in ScopedTrees
    /\ scopes = NoScopes

\* RootNode::render_from_root: a new AncestorValues, then Node::render
ScopedRenderFromRoot ==
    /\ scopes = NoScopes
    /\ scopes' = Node_render(scoped_nodes, 1, NoValues,
                             [this \in 1 .. Len(scoped_nodes) |->
                                 [before |-> NoValues, own |-> NoValues,
                                  after |-> NoValues]]).record
    /\ UNCHANGED <<engine_vars, cvars, nvars, pvars, scoped_nodes, yvars, mvars, qvars, lvars>>

NextScope == ScopedRenderFromRoot
SpecScope == InitScope /\ [][NextScope]_vars

(* ------------------------ who sees which value ------------------------- *)
\* the nodes from this up to the root, this first
RECURSIVE AncestorsOrSelf(_, _)
AncestorsOrSelf(heap, this) ==
    IF this = NullNode THEN <<>>
    ELSE <<this>> \o AncestorsOrSelf(heap, heap[this].m_parent)

\* the nodes of that list whose element was given a width
Publishing(heap, nodes) == SelectSeq(nodes, LAMBDA q : ~heap[q].m_element.m_defaulted)

\* what a lookup of width in a scope must give for this node: the width of
\* the nearest node that published one, itself or an ancestor
WidthInScopeOf(heap, this) ==
    LET publishing == Publishing(heap, AncestorsOrSelf(heap, this))
    IN  IF publishing = <<>> THEN Thrown
        ELSE Returned(heap[publishing[1]].m_element.m_value)

Rendered == scopes # NoScopes

\* C33: during Node::render each child is rendered with its own copy of the
\* ancestor scope: what a child or its descendants publish is never visible
\* to its siblings or to the parent's later processing, while what a node
\* itself publishes (non-defaulted only) is visible to all its descendants,
\* up to a descendant that publishes the same name itself
C33_ScopePerChild ==
    Rendered =>
        \A this \in 1 .. Len(scoped_nodes) :
            /\ scopes[this].after = scopes[this].own
            /\ \A k \in 1 .. Len(scoped_nodes[this].m_children) :
                  scopes[scoped_nodes[this].m_children[k]].before = scopes[this].own
            /\ get_float(scopes[this].own, "width") = WidthInScopeOf(scoped_nodes, this)
            /\ get_float(scopes[this].own, "w") = WidthInScopeOf(scoped_nodes, this)

\* node 3 was given a width and its child 5 sees it, while its sibling 4
\* and its parent 2, which were given none, see no width
C33_Witness ==
    /\ Rendered
    /\ scoped_nodes[2].m_children = <<3, 4>>
    /\ ~scoped_nodes[3].m_element.m_defaulted
    /\ get_float(scopes[5].own, "width") = Returned(scoped_nodes[3].m_element.m_value)
    /\ get_float(scopes[4].own, "width") = Thrown
    /\ get_float(scopes[2].after, "width") = Thrown

(* ------------------------ rendering from the root ---------------------- *)
\* the node trees rendered: up to two boxes of any width and height, under
\* the root or under a juxtapose with or without spacing
DrawnBoxes ==
    { BoxElement(name, w, h, 1, default_color, "") :
        name \in {2}, w \in 1 .. MaxWidth, h \in 1 .. MaxHeight }
DrawnScenes ==
    { Scene(juxtaposed, spacing, boxes) :
        juxtaposed \in BOOLEAN, spacing \in 0 .. 1,
        boxes \in {<<>>} \cup { <<b>> : b \in DrawnBoxes }
                  \cup { <<[b EXCEPT !.name = 1], c>> : b \in DrawnBoxes, c \in DrawnBoxes } }

InitDrawn ==
    /\ InitEngine
    /\ InitNoDiff
    /\ InitNode
    /\ ndebug = FALSE
    /\ InitNoBounds
    /\ InitNoSort
    /\ InitNoValue
    /\ InitNoTree
    /\ InitNoScope
    /\ InitNoMove
    /\ InitNoPadding
    /\ InitNoAlign
    /\ drawn_scene \in DrawnScenes
    /\ drawn_tree = NotDrawn

\* RootNode::render_from_root on an empty render tree
DrawFromRoot ==
    /\ drawn_tree = NotDrawn
    /\ drawn_tree' = render_tree_from_root(drawn_scene)
    /\ UNCHANGED <<engine_vars, cvars, nvars, pvars, avars, drawn_scene, mvars, qvars, lvars>>

NextDrawn == DrawFromRoot
SpecDrawn == InitDrawn /\ [][NextDrawn]_vars

(* -------------------- every node has its geometry ---------------------- *)
\* the paths of the nodes of a node tree
ParentPath(scene) == IF scene.juxtaposed THEN <<JName>> ELSE RootPath
NodePaths(scene) ==
    {RootPath, ParentPath(scene)}
        \cup { Append(ParentPath(scene), scene.boxes[i].name) : i \in 1 .. Len(scene.boxes) }

\* the paths of a set that are children of path
ChildrenIn(paths, path) ==
    { q \in paths : Len(q) = Len(path) + 1 /\ SubSeq(q, 1, Len(path)) = path }

\* the least bounds that hold every one of a set of positioned bounds
UnionOfBounds(bs) ==
    IF bs = {} THEN Bounds(Origin, Origin)
    ELSE Bounds([k \in 1 .. 3 |-> CHOOSE m \in { b.base[k] : b \in bs } :
                                      \A b \in bs : m <= b.base[k]],
                [k \in 1 .. 3 |-> CHOOSE m \in { b.end[k] : b \in bs } :
                                      \A b \in bs : m >= b.end[k]])

\* the geometry the claim gives a node without one
Synthesized(tree, path) ==
    LET union == UnionOfBounds({ positioned_bounds(tree.m_rendered[q]) :
                                   q \in ChildrenIn(DOMAIN tree.m_rendered, path) })
    IN  EmptyGeometry(union.base, Bounds(Origin, lengths(union)))

PlaceInOrder(order, q) == CHOOSE i \in 1 .. Len(order) : order[i] = q

Drawn == drawn_tree # NotDrawn

MovePaths == {<<>>, <<1>>, <<1, 1>>, <<1, 1, 1>>, <<1, 2>>, <<2>>}
MoveGeometries ==
    { box_geometry(1, 1, 1, default_color, ""),
      offset_pos(box_geometry(1, 1, 1, Coral, "b"), <<1, 0, 0>>) }
MoveTrees ==
    { [m_rendered |-> rendered, m_insertion_order |-> SortedPaths(DOMAIN rendered)] :
        rendered \in UNION {[D -> MoveGeometries] : D \in SUBSET MovePaths} }
\* the offsets: one along x, one back along x and up
MoveOffsets == {<<MaxCoord, 0, 0>>, <<-MaxCoord, MaxCoord + 1, 0>>}

InitMove ==
    /\ InitEngine
    /\ InitNoDiff
    /\ InitNode
    /\ ndebug = FALSE
    /\ InitNoBounds
    /\ InitNoSort
    /\ InitNoValue
    /\ InitNoTree
    /\ InitNoScope
    /\ InitNoDrawn
    /\ InitNoPadding
    /\ InitNoAlign
    /\ moving_tree \in MoveTrees
    /\ moved_tree = NotDrawn
    /\ move_call = NoMove

\* move_parent_and_descendants_by(path, by_pos)
MoveCall(path, by_pos) ==
    /\ ~move_call.called
    /\ moved_tree' = move_parent_and_descendants_by_impl(moving_tree, path, by_pos,
                                                         {}, FALSE)
    /\ move_call' = [path |-> path, by_pos |-> by_pos, excluding |-> {},
                     called |-> TRUE]
    /\ UNCHANGED <<engine_vars, cvars, nvars, pvars, avars, yvars, qvars, lvars, moving_tree>>

\* move_parent_and_descendants_by(path, by_pos, excluding)
MoveExcludingCall(path, by_pos, excluding) ==
    /\ ~move_call.called
    /\ moved_tree' = move_parent_and_descendants_by_impl(moving_tree, path, by_pos,
                                                         {excluding}, FALSE)
    /\ move_call' = [path |-> path, by_pos |-> by_pos, excluding |-> {excluding},
                     called |-> TRUE]
    /\ UNCHANGED <<engine_vars, cvars, nvars, pvars, avars, yvars, qvars, lvars, moving_tree>>

NextMove ==
    \E path \in MovePaths, by_pos \in MoveOffsets :
        \/ MoveCall(path, by_pos)
        \/ \E excluding \in MovePaths : MoveExcludingCall(path, by_pos, excluding)
SpecMove == InitMove /\ [][NextMove]_vars

(* ----------------------- what a move leaves alone ---------------------- *)
\* q is under path: path itself or one of its descendants
Under(q, path) == IsPrefix(path, q)

\* the entries the call has to move
ToMove(call) ==
    { q \in DOMAIN moving_tree.m_rendered :
        \/ q = call.path
        \/ /\ Under(q, call.path)
           /\ \A excluded \in call.excluding : ~Under(q, excluded) }

\* C35: move_parent_and_descendants_by(path, d, [exclude]) adds d exactly
\* once to the position of the node at path and of every strict descendant
\* of path that is not under exclude (inclusive), and leaves every other
\* entry of the render tree, all bounds, colours and texts, and the insertion
\* order unchanged
C35_MoveFrame ==
    move_call.called =>
        /\ DOMAIN moved_tree.m_rendered = DOMAIN moving_tree.m_rendered
        /\ moved_tree.m_insertion_order = moving_tree.m_insertion_order
        /\ \A q \in DOMAIN moving_tree.m_rendered :
              moved_tree.m_rendered[q] =
                  IF q \in ToMove(move_call)
                  THEN [moving_tree.m_rendered[q] EXCEPT
                           !.pos = PointAdd(@, move_call.by_pos)]
                  ELSE moving_tree.m_rendered[q]

\* the whole tree is there and 1 is moved without what is under 1.1: the
\* entries 1 and 1.2 have moved, 1.1, 1.1.1, 2 and the root have not
C35_Witness ==
    /\ move_call.called
    /\ move_call.path = <<1>>
    /\ move_call.excluding = {<<1, 1>>}
    /\ DOMAIN moving_tree.m_rendered = MovePaths
    /\ \A q \in {<<1>>, <<1, 2>>} :
          moved_tree.m_rendered[q].pos
              = PointAdd(moving_tree.m_rendered[q].pos, move_call.by_pos)
    /\ \A q \in {<<>>, <<1, 1>>, <<1, 1, 1>>, <<2>>} :
          moved_tree.m_rendered[q] = moving_tree.m_rendered[q]

(* ------------------------- the Padding element ------------------------- *)
\* the padding is the node 1; 1.1 and 1.2 are its children and 2 is its
\* sibling
PaddingPath == <<1>>
PaddingPaths == {<<1, 1>>, <<1, 2>>, <<2>>}
\* what the children have rendered: a 2x2x2 box at the origin, a unit box
\* one step along x, and a 2x1x1 box one step up
PaddingGeometries ==
    { box_geometry(2, 2, 2, default_color, ""),
      offset_pos(box_geometry(1, 1, 1, Coral, "b"), <<1, 0, 0>>),
      offset_pos(box_geometry(2, 1, 1, default_color, ""), <<0, 1, 0>>) }
PaddingTrees ==
    { [m_rendered |-> rendered, m_insertion_order |-> SortedPaths(DOMAIN rendered)] :
        rendered \in UNION {[D -> PaddingGeometries] : D \in SUBSET PaddingPaths} }
\* a length of the element: never given, or given as 1 or as 3
PaddingLengths ==
    {DefaultedLength, [m_value |-> 1, m_defaulted |-> FALSE],
     [m_value |-> 3, m_defaulted |-> FALSE]}

\* PaddingElement::render
PaddingElement_render(element, path, render_tree) ==
    LET child_bounds == positioned_bounds_of(render_tree, path)
        children_lengths == lengths(child_bounds)
        own_width == IF element.width.m_defaulted THEN children_lengths[1]
                 ELSE element.width.m_value
        own_height == IF element.height.m_defaulted THEN children_lengths[2]
                  ELSE element.height.m_value
        own_depth == IF element.depth.m_defaulted THEN children_lengths[3]
                 ELSE element.depth.m_value
        bounds == Bounds(Origin, <<own_width, own_height, own_depth>>)
    IN  update(render_tree, path, EmptyGeometry(child_bounds.base, bounds))

InitPadding ==
    /\ InitEngine
    /\ InitNoDiff
    /\ InitNode
    /\ ndebug = FALSE
    /\ InitNoBounds
    /\ InitNoSort
    /\ InitNoValue
    /\ InitNoTree
    /\ InitNoScope
    /\ InitNoDrawn
    /\ InitNoMove
    /\ InitNoAlign
    /\ \E w \in PaddingLengths, h \in PaddingLengths, d \in PaddingLengths :
          padding_element = [width |-> w, height |-> h, depth |-> d,
                             rendered |-> FALSE]
    /\ padding_tree \in PaddingTrees
    /\ padded_tree = NotDrawn

\* the element of node 1 renders, after its children have
PaddingRender ==
    /\ ~padding_element.rendered
    /\ padded_tree' = PaddingElement_render(padding_element, PaddingPath, padding_tree)
    /\ padding_element' = [padding_element EXCEPT !.rendered = TRUE]
    /\ UNCHANGED <<engine_vars, cvars, nvars, pvars, avars, yvars, mvars, lvars, padding_tree>>

NextPadding == PaddingRender
SpecPadding == InitPadding /\ [][NextPadding]_vars

(* ------------------------ the size of a padding ------------------------ *)
\* the larger of two lengths
MaxOf(a, b) == IF a >= b THEN a ELSE b

\* the lengths of the bounds around what the children of path have rendered
ChildrenLengths(tree, path) ==
    LET kids == {q \in DOMAIN tree.m_rendered : Len(q) = Len(path) + 1 /\ IsPrefix(path, q)}
        around(i) ==
            IF kids = {} THEN 0
            ELSE LET lo == CHOOSE v \in {positioned_bounds(tree.m_rendered[q]).base[i] : q \in kids} :
                               \A q \in kids : v <= positioned_bounds(tree.m_rendered[q]).base[i]
                     hi == CHOOSE v \in {positioned_bounds(tree.m_rendered[q]).end[i] : q \in kids} :
                               \A q \in kids : v >= positioned_bounds(tree.m_rendered[q]).end[i]
                 IN  hi - lo
    IN  <<around(1), around(2), around(3)>>

\* the size the element declares on each axis: nothing when never given
DeclaredLengths(element) ==
    << IF element.width.m_defaulted THEN 0 ELSE element.width.m_value,
       IF element.height.m_defaulted THEN 0 ELSE element.height.m_value,
       IF element.depth.m_defaulted THEN 0 ELSE element.depth.m_value >>

\* the children's geometries, and those of every other node, are as before
C36_ChildrenUntouched ==
    padding_element.rendered =>
        \A q \in DOMAIN padding_tree.m_rendered : padded_tree.m_rendered[q] = padding_tree.m_rendered[q]

\* C36: the Padding element produces an empty geometry whose size on each
\* axis is max(own declared length, children's length on that axis), and it
\* leaves the children's geometries untouched
C36_PaddingIsMax ==
    padding_element.rendered =>
        /\ PaddingPath \in DOMAIN padded_tree.m_rendered
        /\ ~should_draw(padded_tree.m_rendered[PaddingPath])
        /\ \A i \in 1..3 :
              lengths(padded_tree.m_rendered[PaddingPath].bounds)[i]
                  = MaxOf(DeclaredLengths(padding_element)[i],
                          ChildrenLengths(padding_tree, PaddingPath)[i])
        /\ C36_ChildrenUntouched

\* what the element does: a length that is given is taken as it is, also
\* when the children are longer, and only a length never given is the
\* children's
C36_PaddingIsOwnElseChildren ==
    padding_element.rendered =>
        /\ PaddingPath \in DOMAIN padded_tree.m_rendered
        /\ ~should_draw(padded_tree.m_rendered[PaddingPath])
        /\ \A i \in 1..3 :
              lengths(padded_tree.m_rendered[PaddingPath].bounds)[i]
                  = IF DeclaredLengths(padding_element)[i] # 0
                    THEN DeclaredLengths(padding_element)[i]
                    ELSE ChildrenLengths(padding_tree, PaddingPath)[i]
        /\ C36_ChildrenUntouched

\* a padding of width 1 around children that are 2 wide has rendered
C36_NarrowPadding ==
    /\ padding_element.rendered
    /\ ~padding_element.width.m_defaulted
    /\ padding_element.width.m_value = 1
    /\ ChildrenLengths(padding_tree, PaddingPath)[1] = 2
    /\ lengths(padded_tree.m_rendered[PaddingPath].bounds)[1] = 1

(* ----------------------- the alignment of children --------------------- *)
\* Axis::X, Axis::Y, Axis::Z, and Point::operator[]: the coordinate on an axis
Axes == {"X", "Y", "Z"}
OnAxis(pt, axis) == CASE axis = "X" -> pt[1] [] axis = "Y" -> pt[2] [] axis = "Z" -> pt[3]
Alignments == {"left", "center", "right"}

\* Bounds::center, Bounds::bottom_left, Bounds::bottom_right; the lengths
\* used here are even, so that the halves are exact
center(b) ==
    PointAdd(b.base, <<lengths(b)[1] \div 2, lengths(b)[2] \div 2, lengths(b)[3] \div 2>>)
bottom_left(b) == b.base
bottom_right(b) == PointAdd(b.base, <<b.end[1], 0, 0>>)

\* offset_from_alignment
offset_from_alignment(alignment, axis, bounds, total_bounds) ==
    CASE alignment = "left" ->
            OnAxis(bottom_left(total_bounds), axis) - OnAxis(bottom_left(bounds), axis)
      [] alignment = "right" ->
            OnAxis(bottom_right(total_bounds), axis) - OnAxis(bottom_right(bounds), axis)
      [] alignment = "center" ->
            OnAxis(center(total_bounds), axis) - OnAxis(center(bounds), axis)

\* JuxtaposeFeatureSet::align: one path after the other
RECURSIVE align(_, _, _, _, _)
align(tree, paths, total_pos_bounds, our_axis, our_alignment) ==
    IF paths = <<>> THEN tree
    ELSE LET pos_bounds == positioned_bounds_of(tree, Head(paths))
             dx == offset_from_alignment(our_alignment, "X", pos_bounds, total_pos_bounds)
             dz == offset_from_alignment(our_alignment, "Z", pos_bounds, total_pos_bounds)
             offset == CASE our_axis = "X" -> <<0, 0, dz>>
                         [] our_axis = "Y" -> <<dx, 0, dz>>
                         [] our_axis = "Z" -> <<dx, 0, 0>>
         IN  align(move_parent_and_descendants_by_impl(tree, Head(paths), offset, {}, FALSE),
                   Tail(paths), total_pos_bounds, our_axis, our_alignment)

\* JuxtaposeFeatureSet::positioned_bounds_with_provided_lengths of a
\* juxtapose whose own lengths were never given
positioned_bounds_with_provided_lengths(tree, paths) ==
    AddPositionedBounds(NoBounds, tree, paths)

\* the juxtapose is the node 1 with the children 1.1 and 1.2; each child has
\* rendered a cube of side 2 or 4, at the origin or two steps along one axis
AlignPath == <<1>>
AlignSides == {2, 4}
AlignPositions == {Origin, <<2, 0, 0>>, <<0, 2, 0>>, <<0, 0, 2>>}
AlignGeometries ==
    { offset_pos(box_geometry(side, side, side, default_color, ""), pos) :
        side \in AlignSides, pos \in AlignPositions }
AlignTrees ==
    { [m_rendered |-> rendered, m_insertion_order |-> SortedPaths(DOMAIN rendered)] :
        rendered \in [{<<1, 1>>, <<1, 2>>} -> AlignGeometries] }

InitAlign ==
    /\ InitEngine
    /\ InitNoDiff
    /\ InitNode
    /\ ndebug = FALSE
    /\ InitNoBounds
    /\ InitNoSort
    /\ InitNoValue
    /\ InitNoTree
    /\ InitNoScope
    /\ InitNoDrawn
    /\ InitNoMove
    /\ InitNoPadding
    /\ aligning_tree \in AlignTrees
    /\ aligned_tree = NotDrawn
    /\ align_call = NoAlign

\* align(our_paths, render_tree, pos_bounds, our_axis, alignment()) as
\* JuxtaposeElement::render calls it
Align(our_axis, our_alignment) ==
    /\ ~align_call.called
    /\ LET our_paths == children_of(aligning_tree, AlignPath)
           pos_bounds == positioned_bounds_with_provided_lengths(aligning_tree, our_paths)
       IN  aligned_tree' = align(aligning_tree, our_paths, pos_bounds, our_axis, our_alignment)
    /\ align_call' = [our_axis |-> our_axis, our_alignment |-> our_alignment,
                      called |-> TRUE]
    /\ UNCHANGED <<engine_vars, cvars, nvars, pvars, avars, yvars, mvars, qvars,
                   aligning_tree>>

NextAlign == \E our_axis \in Axes, our_alignment \in Alignments : Align(our_axis, our_alignment)
SpecAlign == InitAlign /\ [][NextAlign]_vars

(* -------------------------- what aligning does ------------------------- *)
\* the bounds around the children before the call: least base, greatest end
TotalBefore ==
    LET kids == DOMAIN aligning_tree.m_rendered
        before(q) == positioned_bounds(aligning_tree.m_rendered[q])
        low(i) == CHOOSE v \in {before(q).base[i] : q \in kids} :
                      \A q \in kids : v <= before(q).base[i]
        high(i) == CHOOSE v \in {before(q).end[i] : q \in kids} :
                       \A q \in kids : v >= before(q).end[i]
    IN  Bounds(<<low(1), low(2), low(3)>>, <<high(1), high(2), high(3)>>)

\* the child q is aligned with the total bounds on the axis i
AlignedOn(q, i, alignment) ==
    LET after == positioned_bounds(aligned_tree.m_rendered[q])
    IN  CASE alignment = "left" -> OnAxis(after.base, i) = OnAxis(TotalBefore.base, i)
          [] alignment = "right" -> OnAxis(after.end, i) = OnAxis(TotalBefore.end, i)
          [] alignment = "center" ->
                OnAxis(after.base, i) + OnAxis(after.end, i)
                    = OnAxis(TotalBefore.base, i) + OnAxis(TotalBefore.end, i)

\* the child q is where it was on the axis i
KeptOn(q, i) ==
    OnAxis(positioned_bounds(aligned_tree.m_rendered[q]).base, i)
        = OnAxis(positioned_bounds(aligning_tree.m_rendered[q]).base, i)

\* C37: juxtapose alignment shifts each child on the two axes orthogonal to
\* the layout axis: left makes the near edges of the child's positioned
\* bounds and of the total bounds coincide, right the far edges, center the
\* centers, on both orthogonal axes
C37_AlignedOnBothAxes ==
    align_call.called =>
        \A q \in DOMAIN aligning_tree.m_rendered :
            /\ KeptOn(q, align_call.our_axis)
            /\ \A i \in Axes \ {align_call.our_axis} : AlignedOn(q, i, align_call.our_alignment)

\* the axes the code shifts on: z for a layout along x, x and z for a layout
\* along y, x for a layout along z
ShiftedAxes(our_axis) ==
    CASE our_axis = "X" -> {"Z"}
      [] our_axis = "Y" -> {"X", "Z"}
      [] our_axis = "Z" -> {"X"}

\* what aligning does: the height is never aligned, and left and center
\* align on the shifted axes
C37_AlignedLeftOrCenter ==
    align_call.called =>
        \A q \in DOMAIN aligning_tree.m_rendered :
            /\ \A i \in Axes \ ShiftedAxes(align_call.our_axis) : KeptOn(q, i)
            /\ align_call.our_alignment # "right" =>
                  \A i \in ShiftedAxes(align_call.our_axis) :
                      AlignedOn(q, i, align_call.our_alignment)

\* right alignment of a layout along x: a child of depth 2 beside one of
\* depth 4, both at the origin, keeps its far edge at z = 2
C37_RightNotAligned ==
    /\ align_call.called
    /\ align_call.our_axis = "X"
    /\ align_call.our_alignment = "right"
    /\ positioned_bounds(aligning_tree.m_rendered[<<1, 1>>]) = Bounds(Origin, <<2, 2, 2>>)
    /\ positioned_bounds(aligning_tree.m_rendered[<<1, 2>>]) = Bounds(Origin, <<4, 4, 4>>)
    /\ OnAxis(positioned_bounds(aligned_tree.m_rendered[<<1, 1>>]).end, "Z") = 2

(* -------------------------- replaying the log -------------------------- *)
\* a scene that applies the events in order: the paths it holds, and whether
\* every event so far found what it needs (an Add an absent path, every
\* other event a present one)
RECURSIVE Replay(_, _)
Replay(events, scene) ==
    IF events = <<>> THEN scene
    ELSE LET e == Head(events)
             applies == IF e.type = "Add" THEN e.path \notin scene.paths
                        ELSE e.path \in scene.paths
             paths == CASE e.type = "Add" -> scene.paths \cup {e.path}
                        [] e.type = "Remove" -> scene.paths \ {e.path}
                        [] OTHER -> scene.paths
         IN  Replay(Tail(events), [paths |-> paths, faithful |-> scene.faithful /\ applies])

EmptyScene == [paths |-> {}, faithful |-> TRUE]

\* the producer p has returned from a render that succeeded
RenderSucceeded(p) ==
    /\ pc[p] = "ret"
    /\ last[p].op = "render"
    /\ ~last[p].gone

\* C38: after every successful render, replaying the whole log in order from
\* an empty scene never applies an Add to a path already present nor any
\* other event to an absent path, and the replayed set of paths is the set
\* of paths of the current render tree; for any sequence of transactions,
\* renders and changes of the nodes
C38_LogReplaysToRenderTree ==
    \A p \in Producers :
        RenderSucceeded(p) =>
            /\ Replay(m_events, EmptyScene).faithful
            /\ Replay(m_events, EmptyScene).paths = DOMAIN m_rendered

\* a render has succeeded and the log holds two Adds of one path with no
\* Remove of it between them
C38_AddedTwice ==
    /\ \E p \in Producers : RenderSucceeded(p)
    /\ \E i, j \in 1 .. Len(m_events) :
          /\ i < j
          /\ m_events[i].type = "Add"
          /\ m_events[j].type = "Add"
          /\ m_events[i].path = m_events[j].path
          /\ \A k \in (i + 1) .. (j - 1) : m_events[k].path # m_events[i].path

(* -------------------- waiting for the transaction lock ----------------- *)
\* LayoutEngine::transaction is entered: the thread arrives at
\* m_exclusive_transaction_mutex.lock()
TransactionCall(p) ==
    /\ pc[p] = "idle"
    /\ engineAlive
    /\ Len(handles[p]) < MaxOpen
    /\ pc' = [pc EXCEPT ![p] = "tx_lock"]
    /\ UNCHANGED <<engineAlive, serverRefs, evars, tvars, listeners, cur, last, gvars>>
    /\ UNCHANGED <<rendering, dvars, nvars>>

\* lock() returns, the NodeTransaction constructor copies the render tree
\* and wipes it, and the handle is returned
TransactionLock(p) ==
    /\ pc[p] = "tx_lock"
    /\ CanLock(m_exclusive_transaction_mutex, p)
    /\ m_exclusive_transaction_mutex' = Locked(m_exclusive_transaction_mutex, p)
    /\ handles' = [handles EXCEPT ![p] = Append(@, [m_old_render_tree |-> m_rendered])]
    /\ m_rendered' = EmptyTree
    /\ pc' = [pc EXCEPT ![p] = "idle"]
    /\ UNCHANGED <<engineAlive, serverRefs, evars, nodeTree, pending, listeners,
                   cur, last, gvars>>
    /\ UNCHANGED <<rendering, dvars, nvars>>

\* the steps of a producer thread that blocks at the transaction lock
LockingSteps(p) ==
    \/ LockEvents(p)
    \/ Return(p)
    \/ TransactionCall(p)
    \/ TransactionLock(p)
    \/ \E s \in Scenes : Mutate(p, s)
    \/ \E h \in 1 .. MaxOpen : RenderCall(p, h, MaxEvents)
    \/ AddEvent(p)
    \/ NotifyAll(p)
    \/ DropTransaction(p)

\* two producer threads and a consumer thread while the engine lives
NextLock ==
    \/ \E p \in Producers : LockingSteps(p)
    \/ ConsumerSteps(Consumers, MaxFairTokens)

\* A thread that can continue its call is scheduled in the end, the timeout
\* of a timed wait expires, and a thread blocked at the transaction lock
\* gets it if it is free again and again.  Nothing obliges a thread to start
\* a new call or to drop its handle.
SpecLock ==
    /\ Init
    /\ [][NextLock]_vars
    /\ \A c \in Consumers : WF_vars(ConsumerInternal(c)) /\ WF_vars(Timeout(c))
    /\ \A p \in Producers : WF_vars(ProducerInternal(p)) /\ SF_vars(TransactionLock(p))

(* ------------------------------ no deadlock ---------------------------- *)
\* the positions of a thread that waits for an event on the condition
\* variable
EventWaits == {"listen_blocked", "twait_blocked"}

\* the steps of the thread t
ThreadSteps(t) ==
    \/ t \in Producers /\ LockingSteps(t)
    \/ t \in Consumers /\ ConsumerSteps({t}, MaxFairTokens)

\* some thread that is not waiting for an event can take a step
SomeThreadCanStep ==
    \E t \in Threads : pc[t] \notin EventWaits /\ ENABLED ThreadSteps(t)

\* the order of the locks: who holds the event-server lock is inside a
\* locked region of the event server, neither at the transaction lock nor
\* in a wait; and a consumer never holds the transaction lock
LockOrder ==
    /\ \A t \in Threads :
          m_event_mutex.owner = t => pc[t] \notin (EventWaits \cup {"tx_lock", "idle"})
    /\ m_exclusive_transaction_mutex.owner \notin Consumers

WaitsForTransaction(p) == pc[p] = "tx_lock"
NoHandleHeld == \A q \in Producers : handles[q] = <<>>

IsLiteral(attribute_value) ==
    Len(attribute_value) = 1 /\ attribute_value[1].kind = "number"

\* the last attribute value m_width was updated from
LastAttributeValue == attribute_values[Len(attribute_values)]

\* C40: setting a relative float attribute to a plain literal, by
\* set_value(v) or by parsing a purely numeric attribute string, makes its
\* next evaluation yield v and clears the defaulted flag, whatever relative
\* name, multiplier or percentage the attribute carried before
C40_LiteralWins ==
    (attribute_values # <<>> /\ IsLiteral(LastAttributeValue)) =>
        /\ ~m_width.m_defaulted
        /\ \A i \in 1 .. Len(evaluations) :
              evaluations[i] = Returned(Float(LastAttributeValue[1].n))

\* what holds: the literal is evaluated to itself when no relative name was
\* given before it, whatever the multiplier and the percentage were
C40_LiteralWinsWithoutName ==
    (/\ attribute_values # <<>>
     /\ IsLiteral(LastAttributeValue)
     /\ \A i \in 1 .. Len(attribute_values) :
           \A j \in 1 .. Len(attribute_values[i]) : attribute_values[i][j].kind # "name") =>
        /\ ~m_width.m_defaulted
        /\ \A i \in 1 .. Len(evaluations) :
              evaluations[i] = Returned(Float(LastAttributeValue[1].n))

\* width="height" and then width="8", evaluated where the height is 4:
\* the width is 4
C40_StaleRelativeName ==
    /\ attribute_values = << <<Name("height")>>, <<Number(8)>> >>
    /\ m_width.m_relative_name = "height"
    /\ evaluations # <<>>
    /\ evaluations[1] = Returned(Float(4))

============================================================================
